---- MODULE Spec2Model ----
(***************************************************************************)
(* Model of the chemical-composition table extractor                      *)
(* (src/bakerhughes_final2/src): numeric normalizer, element identifier,  *)
(* row/column reconstructor, table classifier, the two extractors and the *)
(* per-page pipeline of main().                                           *)
(*                                                                         *)
(* Text is modelled as a sequence of one-character strings, so that the   *)
(* string operations of the code (strip, replace, regular expressions,    *)
(* substring tests) are computed, not assumed.  Floats are modelled as    *)
(* exact decimals m * 10^(-e): every division of the code is by a power   *)
(* of ten, so the decimal form is closed under them.                      *)
(***************************************************************************)
EXTENDS Integers, Sequences, FiniteSets, TLC

(***************************************************************************)
(* Characters and Python string primitives                                *)
(***************************************************************************)
Digits == {"0", "1", "2", "3", "4", "5", "6", "7", "8", "9"}

DigitVal(c) ==
    CASE c = "0" -> 0 [] c = "1" -> 1 [] c = "2" -> 2 [] c = "3" -> 3
      [] c = "4" -> 4 [] c = "5" -> 5 [] c = "6" -> 6 [] c = "7" -> 7
      [] c = "8" -> 8 [] c = "9" -> 9

UpperChars == <<"A", "B", "C", "D", "E", "F", "G", "H", "I", "J", "K", "L", "M",
                "N", "O", "P", "Q", "R", "S", "T", "U", "V", "W", "X", "Y", "Z">>

LowerChars == <<"a", "b", "c", "d", "e", "f", "g", "h", "i", "j", "k", "l", "m",
                "n", "o", "p", "q", "r", "s", "t", "u", "v", "w", "x", "y", "z">>

LowerChar(c) ==
    IF \E i \in 1..Len(UpperChars) : UpperChars[i] = c
    THEN LowerChars[CHOOSE i \in 1..Len(UpperChars) : UpperChars[i] = c]
    ELSE c

UpperChar(c) ==
    IF \E i \in 1..Len(LowerChars) : LowerChars[i] = c
    THEN UpperChars[CHOOSE i \in 1..Len(LowerChars) : LowerChars[i] = c]
    ELSE c

\* str.lower() / str.upper()
Lower(s) == [i \in 1..Len(s) |-> LowerChar(s[i])]

Upper(s) == [i \in 1..Len(s) |-> UpperChar(s[i])]

\* s[i:] with a 1-based index
Drop(s, i) == SubSeq(s, i, Len(s))

\* F applied to the value of x: x is evaluated once, before F is applied
With(x, F(_)) == CHOOSE y \in {F(v) : v \in {x}} : TRUE

MinOf(S) == CHOOSE x \in S : \A y \in S : x <= y

MaxOf(S) == CHOOSE x \in S : \A y \in S : y <= x

\* str.strip(): whitespace removed at both ends
Strip(s0) ==
    With(s0, LAMBDA s :
        With({i \in 1..Len(s) : s[i] # " "}, LAMBDA ns :
            IF ns = {} THEN <<>> ELSE SubSeq(s, MinOf(ns), MaxOf(ns))))

\* str.startswith(p)
StartsWith(s, p) == Len(p) <= Len(s) /\ SubSeq(s, 1, Len(p)) = p

\* p in s (substring test)
Contains(s0, p0) ==
    \E s \in {s0} : \E p \in {p0} :
        \E i \in 1..(Len(s) - Len(p) + 1) : SubSeq(s, i, i + Len(p) - 1) = p

\* str.replace(a, b) for single characters a and b
ReplaceChar(s0, a, b) ==
    With(s0, LAMBDA s : [i \in 1..Len(s) |-> IF s[i] = a THEN b ELSE s[i]])

\* str.replace(a, '') for a single character a
RemoveChar(s, a) == SelectSeq(s, LAMBDA c : c # a)

\* ' '.join(parts[i:]) for concrete parts
RECURSIVE JoinFrom(_, _)
JoinFrom(parts, i) ==
    IF i > Len(parts) THEN <<>>
    ELSE IF i = Len(parts) THEN parts[i]
    ELSE With(i + 1, LAMBDA j : parts[i] \o <<" ">> \o JoinFrom(parts, j))

\* ' '.join(parts)
Join(parts0) == With(parts0, LAMBDA parts : JoinFrom(parts, 1))

\* re.sub(r'[^\d\-]', '', s): keep digits and minus signs only
KeepDigitsMinus(s) == SelectSeq(s, LAMBDA c : c \in Digits \cup {"-"})

\* length of the longest run of characters of cs that starts at s[i]
RunLenAt(s, i, cs) ==
    IF \A j \in i..Len(s) : s[j] \in cs THEN Len(s) - i + 1
    ELSE MinOf({j \in i..Len(s) : s[j] \notin cs}) - i

\* re.sub(r'(\d)\s+(\d)', r'\1\2', s) from s[i] on, for concrete s: matches
\* do not overlap, the second digit of a match is consumed and cannot open
\* the next match
RECURSIVE CollapseFrom(_, _)
CollapseFrom(s, i) ==
    IF i > Len(s) THEN <<>>
    ELSE With(RunLenAt(s, i + 1, {" "}), LAMBDA k :
            IF /\ s[i] \in Digits
               /\ k >= 1
               /\ i + k + 1 <= Len(s)
               /\ s[i + k + 1] \in Digits
            THEN With(i + k + 2, LAMBDA j : <<s[i], s[i + k + 1]>> \o CollapseFrom(s, j))
            ELSE With(i + 1, LAMBDA j : <<s[i]>> \o CollapseFrom(s, j)))

CollapseDigitSpaces(s0) == With(s0, LAMBDA s : CollapseFrom(s, 1))

(***************************************************************************)
(* Exact decimals: [m, e] stands for m * 10^(-e), e >= 0, in lowest form  *)
(***************************************************************************)
RECURSIVE Pow10(_)
Pow10(k) == IF k <= 0 THEN 1 ELSE With(k - 1, LAMBDA j : 10 * Pow10(j))

RECURSIVE Reduce(_, _)
Reduce(m, e) ==
    IF m = 0 THEN [kind |-> "num", m |-> 0, e |-> 0]
    ELSE IF e > 0 /\ m % 10 = 0
    THEN With(m \div 10, LAMBDA m1 : With(e - 1, LAMBDA e1 : Reduce(m1, e1)))
    ELSE [kind |-> "num", m |-> m, e |-> e]

\* outcomes of the numeric functions: a float, None, or a propagating exception
Num(m0, e0) == With(m0, LAMBDA m : With(e0, LAMBDA e : Reduce(m, e)))

None == [kind |-> "none", m |-> 0, e |-> 0]

Raised == [kind |-> "raise", m |-> 0, e |-> 0]

IsNum(v) == v.kind = "num"

\* v / 10^k
DivPow10(v0, k) == With(v0, LAMBDA v : Num(v.m, v.e + k))

\* a < b, a <= b on decimals
DecLess(a0, b0) ==
    \E a \in {a0} : \E b \in {b0} : a.m * Pow10(b.e) < b.m * Pow10(a.e)

DecLeq(a0, b0) ==
    \E a \in {a0} : \E b \in {b0} : a.m * Pow10(b.e) <= b.m * Pow10(a.e)

\* a + b
DecAdd(a0, b0) ==
    With(a0, LAMBDA a : With(b0, LAMBDA b :
        With(IF a.e > b.e THEN a.e ELSE b.e, LAMBDA e :
            Num(a.m * Pow10(e - a.e) + b.m * Pow10(e - b.e), e))))

\* the magnitude of a decimal
DecAbs(a0) == With(a0, LAMBDA a : Num(IF a.m < 0 THEN -a.m ELSE a.m, a.e))

(***************************************************************************)
(* int() and float() of Python on text                                    *)
(***************************************************************************)
AllDigits(s0) == \E s \in {s0} : s # <<>> /\ \A i \in 1..Len(s) : s[i] \in Digits

\* the number written by the first n digits of a concrete digit string
RECURSIVE DigitsValTo(_, _)
DigitsValTo(s, n) ==
    IF n = 0 THEN 0
    ELSE With(n - 1, LAMBDA k : 10 * DigitsValTo(s, k) + DigitVal(s[n]))

DigitsVal(s0) == With(s0, LAMBDA s : DigitsValTo(s, Len(s)))

\* an optional sign followed by digits
SignedDigits(s0) ==
    \E s \in {s0} :
        s # <<>> /\ AllDigits(IF Head(s) \in {"-", "+"} THEN Tail(s) ELSE s)

SignedVal(s0) ==
    With(s0, LAMBDA s :
        IF Head(s) = "-" THEN -DigitsVal(Tail(s))
        ELSE IF Head(s) = "+" THEN DigitsVal(Tail(s))
        ELSE DigitsVal(s))

\* int(s): [ok, v]; ok = FALSE stands for ValueError
IntParse(s0) ==
    With(s0, LAMBDA s :
        IF SignedDigits(s) THEN [ok |-> TRUE, v |-> SignedVal(s)]
        ELSE [ok |-> FALSE, v |-> 0])

\* index of the first occurrence of a character of cs in s, 0 if none
FirstIndexOf(s0, cs) ==
    With(s0, LAMBDA s :
        With({i \in 1..Len(s) : s[i] \in cs}, LAMBDA hits :
            IF hits = {} THEN 0 ELSE MinOf(hits)))

\* a float literal without its exponent: [ok, m, e], ok when the text is a
\* sign, digits with at most one dot, and at least one digit
Mantissa(s0) ==
    With(s0, LAMBDA s :
    With(IF s # <<>> /\ Head(s) \in {"-", "+"} THEN Tail(s) ELSE s, LAMBDA u :
    With(FirstIndexOf(u, {"."}), LAMBDA d :
    With(IF d = 0 THEN u ELSE SubSeq(u, 1, d - 1), LAMBDA ip :
    With(IF d = 0 THEN <<>> ELSE Drop(u, d + 1), LAMBDA fp :
        IF /\ ip \o fp # <<>>
           /\ \A i \in 1..Len(ip) : ip[i] \in Digits
           /\ \A i \in 1..Len(fp) : fp[i] \in Digits
        THEN [ok |-> TRUE,
              m |-> IF Head(s) = "-" THEN -DigitsVal(ip \o fp) ELSE DigitsVal(ip \o fp),
              e |-> Len(fp)]
        ELSE [ok |-> FALSE, m |-> 0, e |-> 0])))))

\* float(s): surrounding whitespace is ignored; an exponent part may follow
\* the mantissa.  [ok, v]; ok = FALSE stands for ValueError.
FloatParse(s0) ==
    With(Strip(s0), LAMBDA s :
    With(FirstIndexOf(s, {"e", "E"}), LAMBDA x :
    With(Mantissa(IF x = 0 THEN s ELSE SubSeq(s, 1, x - 1)), LAMBDA mv :
    With(IF x = 0 THEN <<"0">> ELSE Drop(s, x + 1), LAMBDA expo :
        IF mv.ok /\ SignedDigits(expo)
        THEN With(mv.e - SignedVal(expo), LAMBDA k :
                [ok |-> TRUE,
                 v |-> IF k >= 0 THEN Num(mv.m, k) ELSE Num(mv.m * Pow10(-k), 0)])
        ELSE [ok |-> FALSE, v |-> None]))))

(***************************************************************************)
(* str(x) of a float x (Python's repr): the shortest digits, in fixed       *)
(* notation when the decimal exponent is in -4..15, else in exponent        *)
(* notation with an exponent of at least two digits                         *)
(* (the decimals of this module have a single zero, printed 0.0)            *)
(***************************************************************************)
DigitChar(d) == <<"0", "1", "2", "3", "4", "5", "6", "7", "8", "9">>[d + 1]

RECURSIVE NatStr(_)
NatStr(n) ==
    IF n < 10 THEN <<DigitChar(n)>>
    ELSE NatStr(n \div 10) \o <<DigitChar(n % 10)>>

Zeros(k) == [i \in 1..k |-> "0"]

FloatStr(v) ==
    With(NatStr(IF v.m < 0 THEN -v.m ELSE v.m), LAMBDA ds :
    With(Len(ds) - 1 - v.e, LAMBDA x :
        (IF v.m < 0 THEN <<"-">> ELSE <<>>) \o
        (IF v.m = 0 THEN <<"0", ".", "0">>
         ELSE IF x < -4 \/ x >= 16
         THEN (IF Len(ds) = 1 THEN ds ELSE <<Head(ds), ".">> \o Tail(ds))
              \o <<"e", IF x < 0 THEN "-" ELSE "+">>
              \o (IF x > -10 /\ x < 10 THEN <<"0">> ELSE <<>>)
              \o NatStr(IF x < 0 THEN -x ELSE x)
         ELSE IF v.e = 0 THEN ds \o <<".", "0">>
         ELSE IF Len(ds) > v.e
         THEN SubSeq(ds, 1, Len(ds) - v.e) \o <<".">>
              \o SubSeq(ds, Len(ds) - v.e + 1, Len(ds))
         ELSE <<"0", ".">> \o Zeros(v.e - Len(ds)) \o ds)))

(***************************************************************************)
(* Numeric Normalizer (parsing.py)                                        *)
(***************************************************************************)
Hundred == Num(100, 0)

Thousand == Num(1000, 0)

\* infer_decimal_placement after int(clean_str) succeeded with num; digits is
\* len(clean_str)
InferFromInt(num, digits, is_trace_element) ==
    IF is_trace_element
    THEN IF num < 10 THEN Num(num, 3)
         ELSE IF num < 100 THEN Num(num, 4)
         ELSE IF num < 1000 THEN Num(num, 4)
         ELSE Num(num, 6)
    ELSE IF num = 0 THEN Num(0, 0)
    ELSE IF num < 10 THEN Num(num, 0)
    ELSE IF num < 100
         THEN IF num % 10 = 0 THEN Num(num, 1)
              ELSE IF num < 30 THEN Num(num, 2)
              ELSE Num(num, 1)
    ELSE IF num < 1000
         THEN IF num < 100
              THEN (IF num < 10 THEN Num(num, 3) ELSE Num(num, 3))
              ELSE IF num < 200 THEN Num(num, 2)
              ELSE Num(num, 2)
    ELSE IF num < 10000
         THEN IF num < 100 THEN Num(num, 4)
              ELSE IF num < 1000 THEN Num(num, 4)
              ELSE Num(num, 3)
    ELSE Num(num, digits - 1)

\* the body of the try block of infer_decimal_placement; Raised stands for
\* the ValueError of int()
InferBody(value_str, is_trace_element) ==
    With(KeepDigitsMinus(value_str), LAMBDA clean_str :
        IF clean_str = <<>> \/ clean_str = <<"-">> THEN None
        ELSE With(IntParse(clean_str), LAMBDA p :
                IF ~p.ok THEN Raised
                ELSE InferFromInt(p.v, Len(clean_str), is_trace_element)))

\* the handler of infer_decimal_placement left out: the exception propagates
ExceptNothing(r) == r

\* except (ValueError, TypeError): return None
ExceptValueError(r) == IF r = Raised THEN None ELSE r

infer_decimal_placement(value_str, is_trace_element) ==
    With(InferBody(value_str, is_trace_element), LAMBDA r : ExceptValueError(r))

\* an out-of-range correction applied to trace values as well
OutOfRangeIgnoringTrace(num, is_trace) ==
    IF DecLess(Hundred, num)
    THEN IF DecLess(Thousand, num) THEN DivPow10(num, 3) ELSE DivPow10(num, 1)
    ELSE num

\* an out-of-range correction that tests the magnitude of the number
OutOfRangeByMagnitude(num, is_trace) ==
    IF DecLess(Hundred, DecAbs(num)) /\ ~is_trace
    THEN IF DecLess(Thousand, DecAbs(num)) THEN DivPow10(num, 3)
         ELSE DivPow10(num, 1)
    ELSE num

\* the out-of-range correction of normalize_number (step 3)
OutOfRangeCorrection(num, is_trace) ==
    IF DecLess(Hundred, num) /\ ~is_trace
    THEN IF DecLess(Thousand, num) THEN DivPow10(num, 3) ELSE DivPow10(num, 1)
    ELSE num

\* normalize_number from the removal of non-numeric characters on
NormalizeDigits(value, is_trace) ==
    With(KeepDigitsMinus(value), LAMBDA v :
        IF v = <<>> \/ v = <<"-">> THEN None
        ELSE infer_decimal_placement(v, is_trace))

\* normalize_number after the separators were normalised
NormalizeCleaned(value, is_trace) ==
    IF Contains(value, <<".">>)
    THEN With(FloatParse(value), LAMBDA fp :
            IF fp.ok THEN OutOfRangeCorrection(fp.v, is_trace)
            ELSE NormalizeDigits(RemoveChar(value, "."), is_trace))
    ELSE NormalizeDigits(value, is_trace)

normalize_number(value) ==
    IF value = <<>> THEN None
    ELSE
    With(Strip(value), LAMBDA stripped :
    With(StartsWith(stripped, <<"<">>), LAMBDA is_trace :
    With(CollapseDigitSpaces(
            RemoveChar(
                ReplaceChar(IF is_trace THEN Strip(Tail(stripped)) ELSE stripped,
                            ",", "."),
                "%")), LAMBDA cleaned :
        NormalizeCleaned(cleaned, is_trace))))

\* utils/config.py
COMPOSITION_UNITS == <<<<"w", "t", ".", "%">>,
                      <<"w", "t", "%">>,
                      <<"%">>,
                      <<"w", "e", "i", "g", "h", "t", "%">>,
                      <<"m", "a", "s", "s", "%">>>>

\* the unit list of is_valid_composition_value
PercentUnits == {COMPOSITION_UNITS[i] : i \in 1..Len(COMPOSITION_UNITS)}

\* a plausibility check that accepts any magnitude
ValidAnyValue(value, unit) == TRUE

is_valid_composition_value(value0, unit) ==
    \E value \in {value0} :
        IF unit \in PercentUnits
        THEN IF value.m < 0 THEN DecLess(DecAbs(value), Num(1, 1))
             ELSE DecLeq(Num(0, 0), value) /\ DecLeq(value, Hundred)
        ELSE value.m >= 0

(***************************************************************************)
(* Element Identifier (parsing.py)                                        *)
(***************************************************************************)
PRIORITY_ELEMENTS == <<<<"A", "l">>, <<"V">>, <<"F", "e">>, <<"C">>, <<"N">>, <<"O">>, <<"Y">>, <<"H">>>>

\* utils/config.py
ELEMENT_SYMBOLS == PRIORITY_ELEMENTS

PrioritySet == {PRIORITY_ELEMENTS[i] : i \in 1..Len(PRIORITY_ELEMENTS)}

\* ELEMENT_ORDER.get(symbol, 999)
ELEMENT_ORDER(symbol) ==
    IF symbol \in PrioritySet
    THEN (CHOOSE i \in 1..Len(PRIORITY_ELEMENTS) : PRIORITY_ELEMENTS[i] = symbol) - 1
    ELSE 999

\* "no match" (None) of extract_element_symbol
NoSymbol == <<>>

\* the OCR-confusion table: <<key, corrected>>, corrected = <<>> for None
ocr_corrections ==
    <<<<<<"K", "i", "n">>, <<"M", "n">>>>,
       <<<<"k", "i", "n">>, <<"M", "n">>>>,
       <<<<"5">>, <<"S">>>>,
       <<<<"O", "e">>, <<>>>>,
       <<<<"c">>, <<"C">>>>,
       <<<<"s", "i">>, <<"S", "i">>>>,
       <<<<"c", "r">>, <<"C", "r">>>>,
       <<<<"n", "i">>, <<"N", "i">>>>,
       <<<<"m", "o">>, <<"M", "o">>>>,
       <<<<"c", "u">>, <<"C", "u">>>>,
       <<<<"n", "b">>, <<"N", "b">>>>,
       <<<<"a", "l">>, <<"A", "l">>>>,
       <<<<"f", "e">>, <<"F", "e">>>>,
       <<<<"t", "i">>, <<"T", "i">>>>,
       <<<<"v">>, <<"V">>>>,
       <<<<"n">>, <<"N">>>>,
       <<<<"o">>, <<"O">>>>,
       <<<<"h">>, <<"H">>>>,
       <<<<"y">>, <<"Y">>>>>>

InCorrections(t) == \E i \in 1..Len(ocr_corrections) : ocr_corrections[i][1] = t

Corrected(t) ==
    ocr_corrections[CHOOSE i \in 1..Len(ocr_corrections) : ocr_corrections[i][1] = t][2]

\* the first symbol of PRIORITY_ELEMENTS, in list order, that satisfies P
FirstSymbol(P(_)) ==
    IF \E i \in 1..Len(PRIORITY_ELEMENTS) : P(PRIORITY_ELEMENTS[i])
    THEN PRIORITY_ELEMENTS[CHOOSE i \in 1..Len(PRIORITY_ELEMENTS) :
            /\ P(PRIORITY_ELEMENTS[i])
            /\ \A j \in 1..(i - 1) : ~P(PRIORITY_ELEMENTS[j])]
    ELSE NoSymbol

\* the test of a correction with the membership in the priority list left out
AcceptsAnyCorrection(corrected) == corrected # <<>>

\* if corrected and corrected in PRIORITY_ELEMENTS
AcceptsCorrection(corrected) == corrected # <<>> /\ corrected \in PrioritySet

\* extract_element_symbol on the stripped text and its lowercase form
ExtractFrom(text, text_lower) ==
    LET ExactCI(symbol) == Upper(text) = Upper(symbol)
        Prefix(symbol) ==
            StartsWith(text, symbol) \/ StartsWith(text_lower, Lower(symbol))
        Anywhere(symbol) ==
            Contains(text, symbol) \/ Contains(text_lower, Lower(symbol))
    IN  IF InCorrections(text) /\ AcceptsCorrection(Corrected(text))
        THEN Corrected(text)
        ELSE IF InCorrections(text) /\ Corrected(text) = <<>>
        THEN NoSymbol
        ELSE IF InCorrections(text_lower) /\ AcceptsCorrection(Corrected(text_lower))
        THEN Corrected(text_lower)
        ELSE IF text \in PrioritySet THEN text
        ELSE IF FirstSymbol(ExactCI) # NoSymbol THEN FirstSymbol(ExactCI)
        ELSE IF FirstSymbol(Prefix) # NoSymbol THEN FirstSymbol(Prefix)
        ELSE FirstSymbol(Anywhere)

extract_element_symbol(text0) ==
    With(Strip(text0), LAMBDA text :
        With(Lower(text), LAMBDA text_lower : ExtractFrom(text, text_lower)))

\* extract_unit
DefaultUnit == <<"w", "t", ".", "%">>

extract_unit(text0) ==
    With(Lower(text0), LAMBDA text :
        With({i \in 1..Len(COMPOSITION_UNITS) :
                Contains(text, Lower(COMPOSITION_UNITS[i]))}, LAMBDA hits :
            IF hits # {} THEN COMPOSITION_UNITS[MinOf(hits)] ELSE DefaultUnit))

(***************************************************************************)
(* Table Classifier (table_detect.py)                                     *)
(***************************************************************************)
TABLE_KEYWORDS == <<<<"c", "o", "m", "p", "o", "s", "i", "t", "i", "o", "n">>, <<"c", "h", "e", "m", "i", "c", "a", "l">>, <<"e", "l", "e", "m", "e", "n", "t">>, <<"r", "e", "q", "u", "i", "r", "e", "m", "e", "n", "t">>, <<"a", "c", "t", "u", "a", "l">>, <<"s", "a", "m", "p", "l", "e">>>>

\* ' '.join([' '.join(row) for row in table_data])
FlatText(table_data0) ==
    With(table_data0, LAMBDA table_data :
        Join([i \in 1..Len(table_data) |-> Join(table_data[i])]))

\* sum(1 for keyword in keywords if keyword.lower() in flat_text)
keyword_matches(flat_text) ==
    Cardinality({i \in 1..Len(TABLE_KEYWORDS) :
                    Contains(flat_text, Lower(TABLE_KEYWORDS[i]))})

\* sum(1 for symbol in ELEMENT_SYMBOLS if symbol in flat_text)
element_matches(flat_text) ==
    Cardinality({i \in 1..Len(ELEMENT_SYMBOLS) :
                    Contains(flat_text, ELEMENT_SYMBOLS[i])})

is_chemical_composition_table(table_data) ==
    \E flat_text \in {Lower(FlatText(table_data))} :
        keyword_matches(flat_text) >= 2 \/ element_matches(flat_text) >= 3

(***************************************************************************)
(* Composition Extractor (parsing.py, parse_table_to_composition_data)    *)
(***************************************************************************)
NumChars == Digits \cup {",", "."}

\* re.search(r'[\d,\.]+', cell).group(), <<>> when there is no match
SearchNumber(cell0) ==
    With(cell0, LAMBDA cell :
        With(FirstIndexOf(cell, NumChars), LAMBDA i :
            IF i = 0 THEN <<>>
            ELSE SubSeq(cell, i, i + RunLenAt(cell, i, NumChars) - 1)))

\* a record of the output
Record(element_symbol, value, unit) ==
    [element_symbol |-> element_symbol, value |-> value, unit |-> unit]

\* the test of the header search: the row text contains a symbol or 'element'
LooksLikeHeader(row) ==
    \E row_text \in {Lower(Join(row))} :
        \/ \E i \in 1..Len(ELEMENT_SYMBOLS) : Contains(row_text, Lower(ELEMENT_SYMBOLS[i]))
        \/ Contains(row_text, <<"e", "l", "e", "m", "e", "n", "t">>)

\* a header search that always takes the first row
HeaderAlwaysFirst(table_data) == 1

\* header_row_idx, as a 1-based row number
header_row_idx(table_data) ==
    With({i \in 1..MinOf({3, Len(table_data)}) : LooksLikeHeader(table_data[i])},
         LAMBDA found : IF found # {} THEN MinOf(found) ELSE 1)

headers_of(table_data) == table_data[header_row_idx(table_data)]

unit_of(table_data) == extract_unit(Lower(Join(headers_of(table_data))))

\* not row or all(not cell.strip() for cell in row)
EmptyRow(row) == \A i \in 1..Len(row) : Strip(row[i]) = <<>>

\* Strategy 1: the normalized cells after cell 0, <<num, col>> in column order
Candidates(row) ==
    SelectSeq([k \in 1..(Len(row) - 1) |-> <<normalize_number(row[k + 1]), k + 1>>],
              LAMBDA c : c[1] # None)

\* candidates sorted by column: the leftmost one
FirstCandidate(candidates) == candidates[1][1]

\* Strategy 1 without the preference for plausible values
StrategyALeftmostNumeric(row, unit, seen) ==
    With(IF Len(row) >= 2 THEN extract_element_symbol(row[1]) ELSE NoSymbol, LAMBDA es :
        IF es # NoSymbol /\ es \notin seen
        THEN With(Candidates(row), LAMBDA candidates :
                [es |-> es,
                 value |-> IF candidates = <<>> THEN None
                           ELSE FirstCandidate(candidates)])
        ELSE [es |-> es, value |-> None])

\* Strategy 1 (first column is the element): [es, value]
StrategyA(row, unit, seen) ==
    With(IF Len(row) >= 2 THEN extract_element_symbol(row[1]) ELSE NoSymbol, LAMBDA es :
        IF es # NoSymbol /\ es \notin seen
        THEN With(Candidates(row), LAMBDA candidates :
             With(SelectSeq(candidates,
                            LAMBDA c : is_valid_composition_value(c[1], unit)),
                  LAMBDA valid_candidates :
                [es |-> es,
                 value |-> IF candidates = <<>> THEN None
                           ELSE IF valid_candidates # <<>>
                           THEN FirstCandidate(valid_candidates)
                           ELSE FirstCandidate(candidates)]))
        ELSE [es |-> es, value |-> None])

\* the value Strategy 2 reads for the element found in cell i
PairValue(row, i) ==
    With(SearchNumber(row[i]), LAMBDA num_match :
        IF num_match # <<>> THEN normalize_number(num_match)
        ELSE With(IF i + 1 <= Len(row) THEN normalize_number(row[i + 1]) ELSE None,
                  LAMBDA next :
                IF next = None /\ i > 1 THEN normalize_number(row[i - 1]) ELSE next))

\* Strategy 2: the loop over the cells from cell i on, es being the element
\* symbol held so far
RECURSIVE StrategyBLoop(_, _, _, _)
StrategyBLoop(row, seen, i, es) ==
    IF i > Len(row) THEN [es |-> es, value |-> None]
    ELSE With(extract_element_symbol(row[i]), LAMBDA elem :
         With(i + 1, LAMBDA j :
            IF elem # NoSymbol /\ elem \notin seen
            THEN With(PairValue(row, i), LAMBDA value :
                    IF value # None THEN [es |-> elem, value |-> value]
                    ELSE StrategyBLoop(row, seen, j, elem))
            ELSE StrategyBLoop(row, seen, j, es)))

\* Strategy 3: the loop over the header cells from column i on, acc being
\* the element symbol and value held so far
RECURSIVE StrategyCLoop(_, _, _, _, _)
StrategyCLoop(row, headers, seen, i, acc) ==
    IF i > Len(headers) THEN acc
    ELSE With(extract_element_symbol(headers[i]), LAMBDA elem :
         With(i + 1, LAMBDA j :
            IF elem # NoSymbol /\ elem \notin seen /\ i <= Len(row)
            THEN With(normalize_number(row[i]), LAMBDA value :
                    IF value # None THEN [es |-> elem, value |-> value]
                    ELSE With([es |-> elem, value |-> None], LAMBDA acc1 :
                            StrategyCLoop(row, headers, seen, j, acc1)))
            ELSE StrategyCLoop(row, headers, seen, j, acc)))

\* the element symbol and value the three strategies leave for a row
RowResult(row, headers, unit, seen) ==
    With(StrategyA(row, unit, seen), LAMBDA a :
    With(IF a.es = NoSymbol \/ a.es \in seen
         THEN StrategyBLoop(row, seen, 1, a.es)
         ELSE a, LAMBDA b :
        IF b.es = NoSymbol /\ Len(headers) > 1
        THEN StrategyCLoop(row, headers, seen, 1, b)
        ELSE b))

\* the condition under which the row's result is stored
Stores(r, unit, seen) ==
    /\ r.es # NoSymbol
    /\ r.es \notin seen
    /\ r.value # None
    /\ is_valid_composition_value(r.value, unit)

\* a row loop that does not mark the stored element as seen
ProcessRowNoMark(row, headers, unit, recs, seen) ==
    IF EmptyRow(row) THEN [recs |-> recs, seen |-> seen]
    ELSE With(RowResult(row, headers, unit, seen), LAMBDA r :
            IF Stores(r, unit, seen)
            THEN [recs |-> Append(recs, Record(r.es, r.value, unit)), seen |-> seen]
            ELSE [recs |-> recs, seen |-> seen])

\* a row loop in which the last row that names an element replaces the
\* record of an earlier one
ProcessRowLastWins(row, headers, unit, recs, seen) ==
    IF EmptyRow(row) THEN [recs |-> recs, seen |-> seen]
    ELSE With(RowResult(row, headers, unit, {}), LAMBDA r :
            IF Stores(r, unit, {})
            THEN [recs |-> Append(SelectSeq(recs, LAMBDA q : q.element_symbol # r.es),
                                  Record(r.es, r.value, unit)),
                  seen |-> seen \cup {r.es}]
            ELSE [recs |-> recs, seen |-> seen])

\* one iteration of the row loop: [recs, seen] after the row
ProcessRow(row, headers, unit, recs, seen) ==
    IF EmptyRow(row) THEN [recs |-> recs, seen |-> seen]
    ELSE With(RowResult(row, headers, unit, seen), LAMBDA r :
            IF Stores(r, unit, seen)
            THEN [recs |-> Append(recs, Record(r.es, r.value, unit)),
                  seen |-> seen \cup {r.es}]
            ELSE [recs |-> recs, seen |-> seen])

\* sum(values_list), from record i on
RECURSIVE SumFrom(_, _)
SumFrom(recs, i) ==
    IF i > Len(recs) THEN Num(0, 0)
    ELSE With(i + 1, LAMBDA j : DecAdd(recs[i].value, SumFrom(recs, j)))

\* avg_value > t, for an integer t: sum / len > t
AvgAbove(recs, t) == DecLess(Num(t * Len(recs), 0), SumFrom(recs, 1))

Fifty == Num(50, 0)

\* a correction pass that divides every value whenever the mean exceeds 20
GlobalCorrectionEager(recs) ==
    IF recs = <<>> THEN recs
    ELSE IF AvgAbove(recs, 20)
    THEN [i \in 1..Len(recs) |-> [recs[i] EXCEPT !.value = DivPow10(@, 2)]]
    ELSE recs

\* the post-processing pass over all_parsed_values
GlobalCorrection(recs) ==
    IF recs = <<>> THEN recs
    ELSE IF AvgAbove(recs, 50)
    THEN [i \in 1..Len(recs) |-> [recs[i] EXCEPT !.value = DivPow10(@, 2)]]
    ELSE IF AvgAbove(recs, 20)
    THEN [i \in 1..Len(recs) |->
            IF DecLess(Fifty, recs[i].value)
            THEN [recs[i] EXCEPT !.value = DivPow10(@, 2)]
            ELSE recs[i]]
    ELSE recs

\* the position of record i after a stable sort by ELEMENT_ORDER
SortedPosition(recs, i) ==
    Cardinality({k \in 1..Len(recs) :
        \/ ELEMENT_ORDER(recs[k].element_symbol) < ELEMENT_ORDER(recs[i].element_symbol)
        \/ /\ ELEMENT_ORDER(recs[k].element_symbol) = ELEMENT_ORDER(recs[i].element_symbol)
           /\ k <= i})

\* a return without the sort: the records in discovery order
SortNothing(recs0) == recs0

\* list.sort(key=lambda x: ELEMENT_ORDER.get(x['element_symbol'], 999))
SortByPriority(recs0) ==
    With(recs0, LAMBDA recs :
        [p \in 1..Len(recs) |->
            recs[CHOOSE i \in 1..Len(recs) : SortedPosition(recs, i) = p]])

\* the row loop from row i on
RECURSIVE ScanPrimary(_, _, _, _, _, _)
ScanPrimary(table_data, i, headers, unit, recs, seen) ==
    IF i > Len(table_data) THEN recs
    ELSE With(ProcessRow(table_data[i], headers, unit, recs, seen), LAMBDA st :
         With(i + 1, LAMBDA j :
            ScanPrimary(table_data, j, headers, unit, st.recs, st.seen)))

parse_table_to_composition_data(table_data0) ==
    With(table_data0, LAMBDA table_data :
        IF Len(table_data) < 2 THEN <<>>
        ELSE With(header_row_idx(table_data), LAMBDA h :
             With(extract_unit(Lower(Join(table_data[h]))), LAMBDA unit :
             With(ScanPrimary(table_data, h + 1, table_data[h], unit, <<>>, {}),
                  LAMBDA all_parsed_values :
                SortByPriority(GlobalCorrection(all_parsed_values))))))

(***************************************************************************)
(* Fallback Heuristic Extractor (parsing.py, parse_table_simple_heuristic) *)
(***************************************************************************)
\* re.search(r'[\d,\.]+(?:-[\d,\.]+)?', cell): <<first, second>>, the runs
\* before and after the hyphen; second = <<>> when the match has no range
\* part, first = <<>> when there is no match
SearchRange(cell0) ==
    With(cell0, LAMBDA cell :
    With(SearchNumber(cell), LAMBDA first :
    With(FirstIndexOf(cell, NumChars) + Len(first), LAMBDA h :
    With(IF first # <<>> /\ h <= Len(cell) /\ cell[h] = "-"
         THEN RunLenAt(cell, h + 1, NumChars) ELSE 0, LAMBDA k :
        <<first, IF k > 0 THEN SubSeq(cell, h + 1, h + k) ELSE <<>> >>))))

\* the value read from a match: the first bound of a range that normalizes
RangeValue(m) ==
    IF m[2] # <<>>
    THEN With(normalize_number(m[1]), LAMBDA val1 :
            IF val1 # None THEN val1 ELSE normalize_number(m[2]))
    ELSE normalize_number(m[1])

\* one cell of the scan: [recs, seen] after the cell
HeuristicCell(cell0, unit, recs, seen) ==
    With(Strip(cell0), LAMBDA cell :
    With(extract_element_symbol(cell), LAMBDA es :
        IF cell # <<>> /\ es # NoSymbol /\ es \notin seen
        THEN With(SearchRange(cell), LAMBDA m :
             With(IF m[1] # <<>> THEN RangeValue(m) ELSE None, LAMBDA value :
                IF value # None /\ is_valid_composition_value(value, unit)
                THEN [recs |-> Append(recs, Record(es, value, unit)),
                      seen |-> seen \cup {es}]
                ELSE [recs |-> recs, seen |-> seen]))
        ELSE [recs |-> recs, seen |-> seen]))

\* the inner loop over the cells of one row, from cell i on
RECURSIVE HeuristicRow(_, _, _, _, _)
HeuristicRow(row, i, unit, recs, seen) ==
    IF i > Len(row) THEN [recs |-> recs, seen |-> seen]
    ELSE With(HeuristicCell(row[i], unit, recs, seen), LAMBDA st :
         With(i + 1, LAMBDA j : HeuristicRow(row, j, unit, st.recs, st.seen)))

heuristic_unit(table_data) == extract_unit(Lower(FlatText(table_data)))

\* the loop over the rows from row i on
RECURSIVE ScanHeuristic(_, _, _, _, _)
ScanHeuristic(table_data, i, unit, recs, seen) ==
    IF i > Len(table_data) THEN recs
    ELSE With(HeuristicRow(table_data[i], 1, unit, recs, seen), LAMBDA st :
         With(i + 1, LAMBDA j : ScanHeuristic(table_data, j, unit, st.recs, st.seen)))

parse_table_simple_heuristic(table_data0) ==
    With(table_data0, LAMBDA table_data :
        With(heuristic_unit(table_data), LAMBDA unit :
            SortByPriority(ScanHeuristic(table_data, 1, unit, <<>>, {}))))

(***************************************************************************)
(* Row/column reconstruction: detect_table_regions (table_detect.py)       *)
(* A fragment is [text, left, top, width, height]; rows is the dictionary   *)
(* of the function in insertion order, a sequence of [row_y, items].        *)
(***************************************************************************)
row_tolerance == 25

col_tolerance == 30

\* item[key] raises KeyError unless the fragment has the key
Has(item, key) == key \in DOMAIN item

\* the grouping loop raises on item: it reads item['top'] and item['height']
GroupingRaises(item) == ~Has(item, "top") \/ ~Has(item, "height")

\* a center rounded up instead of down
YCenterRoundedUp(item) == item.top + ((item.height + 1) \div 2)

\* item['top'] + item['height'] // 2
YCenter(item) == item.top + (item.height \div 2)

Distance(a, b) == IF a >= b THEN a - b ELSE b - a

\* a search that also accepts a key exactly row_tolerance away
MatchedRowInclusive(rows, y_center) ==
    With({k \in 1..Len(rows) : Distance(y_center, rows[k].row_y) <= row_tolerance},
         LAMBDA found : IF found = {} THEN 0 ELSE MinOf(found))

\* the first key of rows within the tolerance of y_center, 0 when none
MatchedRow(rows, y_center) ==
    With({k \in 1..Len(rows) : Distance(y_center, rows[k].row_y) < row_tolerance},
         LAMBDA found : IF found = {} THEN 0 ELSE MinOf(found))

\* an assignment that moves the anchor of a row to its latest fragment
AssignRowMovingAnchor(rows, item) ==
    With(MatchedRow(rows, YCenter(item)), LAMBDA matched_row :
        IF matched_row = 0
        THEN Append(rows, [row_y |-> YCenter(item), items |-> <<item>>])
        ELSE [rows EXCEPT ![matched_row] =
                [row_y |-> YCenter(item), items |-> Append(@.items, item)]])

\* one iteration of the grouping loop
AssignRow(rows, item) ==
    With(MatchedRow(rows, YCenter(item)), LAMBDA matched_row :
        IF matched_row = 0
        THEN Append(rows, [row_y |-> YCenter(item), items |-> <<item>>])
        ELSE [rows EXCEPT ![matched_row].items = Append(@, item)])

\* the rows left in the order of their first fragment
RowsInArrivalOrder(rows) == rows

\* sorted(rows.items()): the keys are distinct, the order is that of the keys
SortedRows(rows) ==
    [k \in 1..Len(rows) |->
        rows[CHOOSE j \in 1..Len(rows) :
                Cardinality({i \in 1..Len(rows) : rows[i].row_y < rows[j].row_y}) = k - 1]]

\* sorted(items, key=lambda x: x['left']), a stable sort
SortedItems(items) ==
    [k \in 1..Len(items) |->
        items[CHOOSE j \in 1..Len(items) :
                Cardinality({i \in 1..Len(items) :
                    \/ items[i].left < items[j].left
                    \/ items[i].left = items[j].left /\ i < j}) = k - 1]]

\* the merge test of the cell loop on item i of the sorted row
MergesWithPrevious(sorted_items, i) ==
    /\ i > 1
    /\ sorted_items[i].left - sorted_items[i - 1].left - sorted_items[i - 1].width
          < col_tolerance

\* the cell loop from item i on: [row_text, first], first holding for each
\* cell the fragment that opened it
RECURSIVE CellsFrom(_, _, _, _)
CellsFrom(sorted_items, i, row_text, first) ==
    IF i > Len(sorted_items) THEN [row_text |-> row_text, first |-> first]
    ELSE IF MergesWithPrevious(sorted_items, i)
    THEN CellsFrom(sorted_items, i + 1,
                   [row_text EXCEPT ![Len(row_text)] = @ \o sorted_items[i].text],
                   first)
    ELSE CellsFrom(sorted_items, i + 1,
                   Append(row_text, sorted_items[i].text),
                   Append(first, sorted_items[i]))

\* the cell loop raises on the sorted row: it reads the width of every item
\* that has a successor and the text of every item
CellLoopRaises(sorted_items) ==
    \E i \in 1..Len(sorted_items) :
        \/ i > 1 /\ ~Has(sorted_items[i - 1], "width")
        \/ ~Has(sorted_items[i], "text")

\* building the cells of a row raises: the sort reads the left of every item
RowRaises(items) ==
    \/ \E i \in 1..Len(items) : ~Has(items[i], "left")
    \/ CellLoopRaises(SortedItems(items))

\* the cells of one row of the dictionary
RowCells(items) ==
    With(SortedItems(items), LAMBDA sorted_items : CellsFrom(sorted_items, 1, <<>>, <<>>))

RECURSIVE GroupFrom(_, _, _)
GroupFrom(ocr_results, i, rows) ==
    IF i > Len(ocr_results) THEN rows
    ELSE With(AssignRow(rows, ocr_results[i]),
              LAMBDA r : GroupFrom(ocr_results, i + 1, r))

\* the grid returned for the fragments of a page
detect_table_regions(ocr_results) ==
    IF ocr_results = <<>> THEN <<>>
    ELSE With(SortedRows(GroupFrom(ocr_results, 1, <<>>)), LAMBDA sorted_rows :
            [k \in 1..Len(sorted_rows) |-> RowCells(sorted_rows[k].items).row_text])

(***************************************************************************)
(* The page loop of main (main.py)                                          *)
(***************************************************************************)
\* if not table_data or len(table_data) < 2
SkipsTable(table_data) == table_data = <<>> \/ Len(table_data) < 2

\* an output that keeps of a page only the elements no earlier page gave
CollectedUnseen(all_composition_data, composition_data) ==
    all_composition_data \o
        SelectSeq(composition_data, LAMBDA r :
            \A i \in 1..Len(all_composition_data) :
                all_composition_data[i].element_symbol # r.element_symbol)

\* if composition_data: all_composition_data.extend(composition_data)
Collected(all_composition_data, composition_data) ==
    IF composition_data # <<>> THEN all_composition_data \o composition_data
    ELSE all_composition_data

\* a fallback tried only when the primary extractor found nothing
FallbackOnlyWhenEmpty(composition_data) == Len(composition_data) < 1

\* if len(composition_data) < 3
NeedsFallback(composition_data) == Len(composition_data) < 3

\* a fallback that keeps the primary records when it finds none itself
FallbackKeepsPrimary(composition_data, table_data) ==
    IF parse_table_simple_heuristic(table_data) = <<>> THEN composition_data
    ELSE parse_table_simple_heuristic(table_data)

\* composition_data = parse_table_simple_heuristic(table_data): the
\* assignment replaces the result of the primary extractor
FallbackResult(composition_data, table_data) ==
    parse_table_simple_heuristic(table_data)

(***************************************************************************)
(* State                                                                  *)
(***************************************************************************)
VARIABLES
    \* a single call of a cell-level function
    text,            \* the input string
    call,            \* the function applied to it, "none" before the call
    is_trace_arg,    \* the is_trace_element argument of infer_decimal_placement
    num_result,      \* the result of the numeric functions
    sym_result,      \* the result of extract_element_symbol
    rec_result,      \* the records extracted for a row [element, text]
    again_result,    \* normalize_number of the string form of num_result
    \* a call of the classifier or of one of the two extractors on a grid
    table_data,          \* the grid
    run,                 \* "none", "classify", "primary" or "heuristic"
    ppc,                 \* position in the function: "start", "rows", "done"
    row_idx,             \* the next row of the row loop (1-based)
    headers,             \* headers of the primary extractor
    unit,                \* unit of the extractor
    all_parsed_values,   \* the records kept so far, then the returned list
    seen_elements,       \* seen_elements of the extractor
    is_table,            \* the result of the classifier
    \* a call of detect_table_regions
    ocr_results,         \* the fragments of the page
    dpc,                 \* position: "group", "build", "done"; "error" after a KeyError
    item_idx,            \* the next fragment of the grouping loop (1-based)
    rows,                \* the dictionary rows, in insertion order
    sorted_rows,         \* sorted(rows.items())
    cell_first,          \* for each cell of table_data the fragment that opened it
    \* the page loop of main
    images,              \* the pages, each given by what OCR finds on it
    page_num,            \* the page being processed (1-based)
    mpc,                 \* position in the loop body
    composition_data,    \* the records of the page
    all_composition_data,\* the records collected over the pages
    log                  \* the steps logged for the page being processed

tokVars == <<text, call, is_trace_arg, num_result, sym_result, rec_result,
             again_result>>

parseVars == <<table_data, run, ppc, row_idx, headers, unit, all_parsed_values,
               seen_elements, is_table>>

\* the variables of the extractors other than the grid and the verdict
parseRest == <<run, ppc, row_idx, headers, unit, all_parsed_values, seen_elements>>

detRest == <<dpc, item_idx, rows, sorted_rows, cell_first>>

detVars == <<ocr_results, detRest>>

mainVars == <<images, page_num, mpc, composition_data, all_composition_data, log>>

vars == <<tokVars, parseVars, detVars, mainVars>>

(***************************************************************************)
(* Inputs of the cell-level functions                                     *)
(***************************************************************************)
MaxTokenLen == 3

\* all strings over an alphabet up to a length
StringsUpTo(alphabet, n) == UNION {[1..k -> alphabet] : k \in 0..n}

NumAlphabet == {"<", "-", ".", "0", "1", "5", " ", "x"}

NamedNumTokens ==
    {<<"0", ".", "0", "0", "0", "0", "1">>,
     <<"0", "0", "0", "0", "0", "1", "0", "0", "0", "0">>,
     <<"6", "5", "3">>,
     <<"<", "0", ".", "0", "0", "1">>,
     <<"0", ",", "1", "9">>,
     <<"1", "9">>,
     <<"6", "5", ".", "0">>,
     <<"1", "2", "3", "4", ".", "5">>,
     <<"1", "5", "0", ".", "5">>,
     <<"-", "0", ".", "0", "5">>,
     <<"1", "2", "3", "4", "5">>,
     <<"0", "0", "0", "1", "2", "3", "4", "5">>,
     <<"<", "1", "9", "0", "0">>,
     <<"<", "1", "9", "0">>,
     <<"1", " ", "2", " ", "3">>,
     <<"1", ".", "2", ".", "3">>,
     <<"-", "5", "0", "0", ".", "5">>,
     <<"0", "0", "5", "0">>,
     <<"0", "0", "5">>,
     <<"1", ".", "5", " ", "%">>,
     <<"6", ",", "5", "%">>,
     <<"1", "-", "2">>,
     <<"-", "-", "5">>,
     <<"<", " ", "0", ".", "5">>,
     <<"<", "1", ".", "5", "e", "3">>,
     <<"1", ",", "2", "3", "4", ".", "5">>,
     <<"<">>,
     <<"<", " ", "1", ",", "5", "%">>,
     <<"<", "1", "5", "0", ".", "5">>,
     <<"Y">>}

NumTokens == StringsUpTo(NumAlphabet, MaxTokenLen) \cup NamedNumTokens

ElemAlphabet == {"A", "l", "O", "e", "K", "i", "n", "s"}

NamedElemTexts ==
    {<<"K", "i", "n">>,
     <<"k", "i", "n">>,
     <<"O", "e">>,
     <<"5">>,
     <<"c">>,
     <<"s", "i">>,
     <<"c", "r">>,
     <<"n", "i">>,
     <<"m", "o">>,
     <<"c", "u">>,
     <<"n", "b">>,
     <<"a", "l">>,
     <<"f", "e">>,
     <<"t", "i">>,
     <<"v">>,
     <<"n">>,
     <<"o">>,
     <<"h">>,
     <<"y">>,
     <<"A", "l">>,
     <<"V">>,
     <<"F", "e">>,
     <<"C">>,
     <<"N">>,
     <<"O">>,
     <<"Y">>,
     <<"H">>,
     <<"M", "n">>,
     <<"S", "i">>,
     <<"T", "i">>,
     <<"E", "l", "e", "m", "e", "n", "t">>,
     <<"w", "t", ".", "%">>,
     <<"A", "l", " ", "6", ".", "5">>,
     <<"F", "E">>,
     <<"6", "5", "3">>}

ElemTexts == StringsUpTo(ElemAlphabet, MaxTokenLen) \cup NamedElemTexts

\* the header row and the element cells of the one-row tables
HeaderRow == <<<<"E", "l", "e", "m", "e", "n", "t">>, <<"w", "t", ".", "%">>>>

RowElements == {<<"Y">>, <<"A", "l">>}

(***************************************************************************)
(* Specification of the cell-level functions                              *)
(***************************************************************************)
TokenInit ==
    /\ text \in NumTokens \cup ElemTexts
    /\ call = "none"
    /\ is_trace_arg = FALSE
    /\ num_result = None
    /\ sym_result = NoSymbol
    /\ rec_result = <<>>
    /\ again_result = None
    /\ table_data = <<>>
    /\ run = "idle"
    /\ ppc = "start"
    /\ row_idx = 0
    /\ headers = <<>>
    /\ unit = <<>>
    /\ all_parsed_values = <<>>
    /\ seen_elements = {}
    /\ is_table = FALSE
    /\ ocr_results = <<>>
    /\ dpc = "idle"
    /\ item_idx = 0
    /\ rows = <<>>
    /\ sorted_rows = <<>>
    /\ cell_first = <<>>
    /\ images = <<>>
    /\ page_num = 0
    /\ mpc = "idle"
    /\ composition_data = <<>>
    /\ all_composition_data = <<>>
    /\ log = <<>>

NormalizeNumber ==
    /\ call = "none"
    /\ text \in NumTokens
    /\ call' = "normalize_number"
    /\ num_result' = normalize_number(text)
    /\ UNCHANGED <<text, is_trace_arg, sym_result, rec_result, again_result,
                   parseVars, detVars, mainVars>>

\* normalize_number applied to the string form of its own result
Renormalize ==
    /\ call = "normalize_number"
    /\ IsNum(num_result)
    /\ call' = "renormalize"
    /\ text' = FloatStr(num_result)
    /\ again_result' = normalize_number(FloatStr(num_result))
    /\ UNCHANGED <<is_trace_arg, num_result, sym_result, rec_result,
                   parseVars, detVars, mainVars>>

InferDecimalPlacement ==
    /\ call = "none"
    /\ text \in NumTokens
    /\ \E t \in BOOLEAN :
          /\ is_trace_arg' = t
          /\ num_result' = infer_decimal_placement(text, t)
    /\ call' = "infer_decimal_placement"
    /\ UNCHANGED <<text, sym_result, rec_result, again_result,
                   parseVars, detVars, mainVars>>

ExtractElementSymbol ==
    /\ call = "none"
    /\ text \in ElemTexts
    /\ call' = "extract_element_symbol"
    /\ sym_result' = extract_element_symbol(text)
    /\ UNCHANGED <<text, is_trace_arg, num_result, rec_result, again_result,
                   parseVars, detVars, mainVars>>

\* the primary extractor on the table [header, [element, text]]
ExtractRow ==
    /\ call = "none"
    /\ text \in NumTokens
    /\ \E el \in RowElements :
          /\ sym_result' = el
          /\ rec_result' = parse_table_to_composition_data(<<HeaderRow, <<el, text>>>>)
    /\ call' = "parse_row"
    /\ UNCHANGED <<text, is_trace_arg, num_result, again_result,
                   parseVars, detVars, mainVars>>

TokenNext ==
    \/ NormalizeNumber
    \/ Renormalize
    \/ InferDecimalPlacement
    \/ ExtractElementSymbol
    \/ ExtractRow

SpecToken == TokenInit /\ [][TokenNext]_vars

(***************************************************************************)
(* Properties of the cell-level functions                                 *)
(***************************************************************************)
EightSymbols == {<<"A", "l">>, <<"V">>, <<"F", "e">>, <<"C">>, <<"N">>, <<"O">>, <<"Y">>, <<"H">>}

OutOfSetKeys == {<<"K", "i", "n">>, <<"k", "i", "n">>, <<"5">>, <<"s", "i">>, <<"c", "r">>, <<"n", "i">>, <<"m", "o">>, <<"c", "u">>, <<"n", "b">>, <<"t", "i">>}

OutOfSetSymbols == {<<"M", "n">>, <<"S">>, <<"S", "i">>, <<"C", "r">>, <<"N", "i">>, <<"M", "o">>, <<"C", "u">>, <<"N", "b">>, <<"T", "i">>}

\* C3: extract_element_symbol returns one of the 8 priority symbols or no
\* match for every input, and never one of Mn, S, Si, Cr, Ni, Mo, Cu, Nb, Ti,
\* also for the tokens the correction table maps to them.
C3_SymbolInPrioritySet ==
    call = "extract_element_symbol" =>
        /\ sym_result \in EightSymbols \cup {NoSymbol}
        /\ sym_result \notin OutOfSetSymbols

\* a token whose correction lies outside the set was resolved
C3_Witness ==
    /\ call = "extract_element_symbol"
    /\ text \in OutOfSetKeys
    /\ sym_result \in EightSymbols

\* the token is a trace token: a leading '<' after stripping
IsTraceToken(t) == StartsWith(Strip(t), <<"<">>)

HasDigit(t) == \E i \in 1..Len(t) : t[i] \in Digits

TraceExamples ==
    {<<<<"<", "0", ".", "0", "0", "1">>, Num(1, 3)>>,
     <<<<"<", "1", "5", "0", ".", "5">>, Num(1505, 1)>>,
     <<<<"<", " ", "1", ",", "5", "%">>, Num(15, 1)>>,
     <<<<"<", "1", "9", "0">>, Num(19, 3)>>,
     <<<<"<", "1", "9", "0", "0">>, Num(19, 4)>>}

MaxGridRows == 3

\* the rows the grids are built from: headers of keywords and of symbols,
\* rows for each strategy, implausible and large values
RowPool ==
    {<<<<"E", "l", "e", "m", "e", "n", "t">>, <<"C", "h", "e", "m", "i", "c", "a", "l">>, <<"C", "o", "m", "p", "o", "s", "i", "t", "i", "o", "n">>>>,
     <<<<"A", "l">>, <<"V">>, <<"F", "e">>>>,
     <<<<"A", "l">>, <<"6", "5", "3">>>>,
     <<<<"F", "e">>, <<"1", "9">>>>,
     <<<<"6", "5", ".", "0">>, <<"8", "0", ".", "5">>, <<"7">>>>,
     <<<<"V", " ", "4", ".", "0", "8", "-", "5">>>>,
     <<<<"A", "l">>, <<"-", "5">>, <<"-", "0", ".", "0", "5">>>>,
     <<<<"C">>, <<"8", "0", ".", "5">>>>,
     <<<<"F", "e">>, <<"-", "5">>>>,
     <<<<"A", "l", " ", "6", ".", "5">>>>}

Grids == UNION {[1..n -> RowPool] : n \in 0..MaxGridRows}

\* grids with rows outside the pool
NamedGrids ==
    {<<<<<<"A", "l">>, <<"6", ".", "5">>>>, <<<<"V">>, <<"4", ".", "0">>>>>>,
     <<<<<<"A", "l", " ", "6", ".", "5">>>>, <<<<"6", ".", "5">>, <<"A", "l", ".">>>>>>,
     <<<<<<"E", "l", "e", "m", "e", "n", "t">>, <<"C", "h", "e", "m", "i", "c", "a", "l">>, <<"C", "o", "m", "p", "o", "s", "i", "t", "i", "o", "n">>>>,
       <<<<"6", ".", "5">>, <<"A", "l", ".">>>>,
       <<<<"6", ".", "5">>, <<"A", "l">>>>>>}

ParseInit ==
    /\ table_data \in Grids \cup NamedGrids
    /\ run = "none"
    /\ ppc = "start"
    /\ row_idx = 0
    /\ headers = <<>>
    /\ unit = <<>>
    /\ all_parsed_values = <<>>
    /\ seen_elements = {}
    /\ is_table = FALSE
    /\ text = <<>>
    /\ call = "idle"
    /\ is_trace_arg = FALSE
    /\ num_result = None
    /\ sym_result = NoSymbol
    /\ rec_result = <<>>
    /\ again_result = None
    /\ ocr_results = <<>>
    /\ dpc = "idle"
    /\ item_idx = 0
    /\ rows = <<>>
    /\ sorted_rows = <<>>
    /\ cell_first = <<>>
    /\ images = <<>>
    /\ page_num = 0
    /\ mpc = "idle"
    /\ composition_data = <<>>
    /\ all_composition_data = <<>>
    /\ log = <<>>

\* is_chemical_composition_table(table_data)
Classify ==
    /\ run = "none"
    /\ run' = "classify"
    /\ ppc' = "done"
    /\ is_table' = is_chemical_composition_table(table_data)
    /\ UNCHANGED <<table_data, row_idx, headers, unit, all_parsed_values,
                   seen_elements, tokVars, detVars, mainVars>>

\* parse_table_to_composition_data up to the row loop; a grid of fewer than
\* two rows returns [] at once
PrimaryBegin ==
    /\ run = "none"
    /\ run' = "primary"
    /\ IF Len(table_data) < 2
       THEN /\ ppc' = "done"
            /\ UNCHANGED <<row_idx, headers, unit>>
       ELSE /\ ppc' = "rows"
            /\ row_idx' = header_row_idx(table_data) + 1
            /\ headers' = headers_of(table_data)
            /\ unit' = unit_of(table_data)
    /\ UNCHANGED <<table_data, all_parsed_values, seen_elements, is_table, tokVars, detVars, mainVars>>

\* one iteration of the row loop of parse_table_to_composition_data
PrimaryRow ==
    /\ run = "primary"
    /\ ppc = "rows"
    /\ row_idx <= Len(table_data)
    /\ \E st \in {ProcessRow(table_data[row_idx], headers, unit,
                             all_parsed_values, seen_elements)} :
          /\ all_parsed_values' = st.recs
          /\ seen_elements' = st.seen
    /\ row_idx' = row_idx + 1
    /\ UNCHANGED <<table_data, run, ppc, headers, unit, is_table, tokVars, detVars, mainVars>>

\* the post-processing pass, the sort and the return
PrimaryFinish ==
    /\ run = "primary"
    /\ ppc = "rows"
    /\ row_idx > Len(table_data)
    /\ all_parsed_values' = SortByPriority(GlobalCorrection(all_parsed_values))
    /\ ppc' = "done"
    /\ UNCHANGED <<table_data, run, row_idx, headers, unit, seen_elements,
                   is_table, tokVars, detVars, mainVars>>

\* parse_table_simple_heuristic up to the scan
HeuristicBegin ==
    /\ run = "none"
    /\ run' = "heuristic"
    /\ ppc' = "rows"
    /\ row_idx' = 1
    /\ unit' = heuristic_unit(table_data)
    /\ UNCHANGED <<table_data, headers, all_parsed_values, seen_elements,
                   is_table, tokVars, detVars, mainVars>>

\* the scan of one row of parse_table_simple_heuristic
HeuristicRowStep ==
    /\ run = "heuristic"
    /\ ppc = "rows"
    /\ row_idx <= Len(table_data)
    /\ \E st \in {HeuristicRow(table_data[row_idx], 1, unit,
                               all_parsed_values, seen_elements)} :
          /\ all_parsed_values' = st.recs
          /\ seen_elements' = st.seen
    /\ row_idx' = row_idx + 1
    /\ UNCHANGED <<table_data, run, ppc, headers, unit, is_table, tokVars, detVars, mainVars>>

\* the sort and the return
HeuristicFinish ==
    /\ run = "heuristic"
    /\ ppc = "rows"
    /\ row_idx > Len(table_data)
    /\ all_parsed_values' = SortByPriority(all_parsed_values)
    /\ ppc' = "done"
    /\ UNCHANGED <<table_data, run, row_idx, headers, unit, seen_elements,
                   is_table, tokVars, detVars, mainVars>>

ParseNext ==
    \/ Classify
    \/ PrimaryBegin
    \/ PrimaryRow
    \/ PrimaryFinish
    \/ HeuristicBegin
    \/ HeuristicRowStep
    \/ HeuristicFinish

SpecParse == ParseInit /\ [][ParseNext]_vars

(***************************************************************************)
(* Properties of the classifier and the extractors                        *)
(***************************************************************************)
Extracting == run \in {"primary", "heuristic"}

\* C1: neither extractor holds two records with the same element symbol:
\* after any number of rows the symbols of the accumulated records are
\* pairwise distinct, and they are exactly the seen-elements set.
C1_NoDuplicateElements ==
    Extracting =>
        /\ \A i, j \in 1..Len(all_parsed_values) :
              i # j => all_parsed_values[i].element_symbol
                          # all_parsed_values[j].element_symbol
        /\ {all_parsed_values[i].element_symbol : i \in 1..Len(all_parsed_values)}
              = seen_elements

\* the primary extractor finished a grid whose last two rows are the same
\* element row, and kept one record
C1_Witness ==
    /\ run = "primary"
    /\ ppc = "done"
    /\ Len(table_data) = 3
    /\ table_data[2] = table_data[3]
    /\ Len(table_data[3]) >= 2
    /\ extract_element_symbol(table_data[3][1]) \in seen_elements
    /\ Len(all_parsed_values) = 1

\* 0 <= v <= 100, or v negative with a magnitude below 0.1, for v = m / 10^e
PlausiblePercent(v) ==
    \/ v.m >= 0 /\ v.m <= 100 * Pow10(v.e)
    \/ v.m < 0 /\ (-v.m) * 10 < Pow10(v.e)

PercentUnitNames ==
    {<<"w", "t", ".", "%">>, <<"w", "t", "%">>, <<"%">>, <<"w", "e", "i", "g", "h", "t", "%">>, <<"m", "a", "s", "s", "%">>}

\* C2: every record the primary extractor returns (after the global
\* correction) and every record of the fallback extractor has a percentage
\* unit and a value with 0 <= value <= 100, or a negative value of
\* magnitude below 0.1.
C2_ValuesPlausible ==
    ((run = "primary" /\ ppc = "done") \/ run = "heuristic") =>
        \A i \in 1..Len(all_parsed_values) :
            /\ IsNum(all_parsed_values[i].value)
            /\ all_parsed_values[i].unit \in PercentUnitNames
            /\ PlausiblePercent(all_parsed_values[i].value)

\* returned records, one of them a tolerated small negative value
C2_Witness ==
    /\ run = "primary"
    /\ ppc = "done"
    /\ Len(all_parsed_values) = 2
    /\ \E i \in 1..2 : all_parsed_values[i].value = Num(-5, 2)

ClaimKeywords == {<<"c", "o", "m", "p", "o", "s", "i", "t", "i", "o", "n">>, <<"c", "h", "e", "m", "i", "c", "a", "l">>, <<"e", "l", "e", "m", "e", "n", "t">>, <<"r", "e", "q", "u", "i", "r", "e", "m", "e", "n", "t">>, <<"a", "c", "t", "u", "a", "l">>, <<"s", "a", "m", "p", "l", "e">>}

\* the counts of the classification rule: keywords in the lowercased
\* flattened text, priority symbols (case-sensitive) in the flattened text
ClaimKeywordCount(grid) ==
    Cardinality({k \in ClaimKeywords : Contains(Lower(FlatText(grid)), k)})

ClaimSymbolCount(grid) ==
    Cardinality({e \in EightSymbols : Contains(FlatText(grid), e)})

\* C4 as stated: the classifier returns true exactly when at least 2
\* keywords occur in the lowercased text or at least 3 priority symbols
\* occur, case-sensitively, in the flattened cell text.
C4_ClassifierRule ==
    run = "classify" =>
        (is_table <=> (ClaimKeywordCount(table_data) >= 2
                        \/ ClaimSymbolCount(table_data) >= 3))

\* a step of the row loop of the primary extractor
RowStep == run = "primary" /\ ppc = "rows" /\ row_idx' = row_idx + 1

\* the columns after cell 0 whose normalized value is plausible
PlausibleColumns(r) ==
    {k \in 2..Len(r) :
        /\ IsNum(normalize_number(r[k]))
        /\ PlausiblePercent(normalize_number(r[k]))}

\* C8: Strategy A.  For a data row of at least 2 cells whose cell 0 names an
\* element not yet recorded and that has a plausible number in a later cell,
\* the row stores the record of that element whose value is
\* normalize_number of the leftmost such cell, with the unit read from the
\* header row.  The row ["Fe","19"] stores 0.19, and the grid
\* [["Element","Chemical","Composition"],["Al","653"]] returns exactly
\* {Al, 6.53, wt.%}.
C8_StrategyA ==
    /\ [][(/\ RowStep
           /\ Len(table_data[row_idx]) >= 2
           /\ extract_element_symbol(table_data[row_idx][1]) \in EightSymbols
           /\ extract_element_symbol(table_data[row_idx][1]) \notin seen_elements
           /\ PlausibleColumns(table_data[row_idx]) # {})
          => all_parsed_values' =
                Append(all_parsed_values,
                       [element_symbol |-> extract_element_symbol(table_data[row_idx][1]),
                        value |-> normalize_number(
                            table_data[row_idx][MinOf(PlausibleColumns(table_data[row_idx]))]),
                        unit |-> extract_unit(Lower(Join(headers)))])]_vars
    /\ [][(RowStep /\ table_data[row_idx] = <<<<"F", "e">>, <<"1", "9">>>> /\ <<"F", "e">> \notin seen_elements)
          => all_parsed_values'[Len(all_parsed_values')].value = Num(19, 2)]_vars
    /\ []((run = "primary" /\ ppc = "done" /\ table_data = <<<<<<"E", "l", "e", "m", "e", "n", "t">>, <<"C", "h", "e", "m", "i", "c", "a", "l">>, <<"C", "o", "m", "p", "o", "s", "i", "t", "i", "o", "n">>>>, <<<<"A", "l">>, <<"6", "5", "3">>>>>>)
          => all_parsed_values = <<[element_symbol |-> <<"A", "l">>, value |-> Num(653, 2),
                                    unit |-> <<"w", "t", ".", "%">>]>>)

\* the sum of the values of recs, in units of 10^(-E)
C9Total(recs, E) ==
    LET S[k \in 0..Len(recs)] ==
            IF k = 0 THEN 0
            ELSE S[k - 1] + recs[k].value.m * Pow10(E - recs[k].value.e)
    IN  S[Len(recs)]

C9Scale(recs) == MaxOf({recs[k].value.e : k \in 1..Len(recs)})

\* the arithmetic mean of the values of recs exceeds t
C9MeanAbove(recs, t) ==
    C9Total(recs, C9Scale(recs)) > t * Len(recs) * Pow10(C9Scale(recs))

\* v > 50 for v = m / 10^e
C9Above50(v) == v.m > 50 * Pow10(v.e)

\* the value the rule of the global correction gives to a record of value v
C9Expected(recs, v) ==
    IF C9MeanAbove(recs, 50) THEN Num(v.m, v.e + 2)
    ELSE IF C9MeanAbove(recs, 20) /\ C9Above50(v) THEN Num(v.m, v.e + 2)
    ELSE v

\* C9: the global correction.  When the primary extractor finishes its row
\* loop with mean m of the stored values: m > 50 divides every value by
\* 100; 20 < m <= 50 divides by 100 exactly the values above 50; otherwise
\* no value changes.  Elements and units are kept and no record is added
\* or dropped.
C9_GlobalCorrection ==
    [][(run = "primary" /\ ppc = "rows" /\ ppc' = "done")
       => /\ Len(all_parsed_values') = Len(all_parsed_values)
          /\ \A i \in 1..Len(all_parsed_values) :
                \E j \in 1..Len(all_parsed_values') :
                    /\ all_parsed_values'[j].element_symbol
                          = all_parsed_values[i].element_symbol
                    /\ all_parsed_values'[j].unit = all_parsed_values[i].unit
                    /\ all_parsed_values'[j].value
                          = C9Expected(all_parsed_values, all_parsed_values[i].value)]_vars

\* a finished run with mean 40.345: 80.5 was divided by 100, 0.19 was kept
C9_Witness ==
    /\ run = "primary"
    /\ ppc = "done"
    /\ Len(all_parsed_values) = 2
    /\ all_parsed_values[1] = [element_symbol |-> <<"F", "e">>, value |-> Num(19, 2),
                               unit |-> <<"w", "t", ".", "%">>]
    /\ all_parsed_values[2] = [element_symbol |-> <<"C">>, value |-> Num(805, 3),
                               unit |-> <<"w", "t", ".", "%">>]

\* the grid of the worked example was parsed to its one record
C8_Witness ==
    /\ run = "primary"
    /\ ppc = "done"
    /\ Len(table_data) = 2
    /\ table_data[2] = <<<<"A", "l">>, <<"6", "5", "3">>>>
    /\ Len(all_parsed_values) = 1
    /\ all_parsed_values[1].value = Num(653, 2)

(***************************************************************************)
(* Specification of the row/column reconstruction                          *)
(***************************************************************************)
MaxFragments == 3

\* fragments on text lines with y-centers 50, 100, 120, 140 and 165, which
\* chain within the row tolerance, one of odd height, with gaps below and
\* above the column tolerance, one of width 0, and fragments that lack the
\* width, the top and the left
FragmentPool ==
    {[text |-> <<"A">>, left |-> 10, top |-> 90, width |-> 20, height |-> 20],
     [text |-> <<"B">>, left |-> 45, top |-> 90, width |-> 20, height |-> 20],
     [text |-> <<"C">>, left |-> 200, top |-> 110, width |-> 30, height |-> 20],
     [text |-> <<"D">>, left |-> 10, top |-> 130, width |-> 20, height |-> 21],
     [text |-> <<"E">>, left |-> 100, top |-> 40, width |-> 20, height |-> 20],
     [text |-> <<"F">>, left |-> 10, top |-> 90, width |-> 0, height |-> 20],
     [text |-> <<"G">>, left |-> 60, top |-> 115, width |-> 100, height |-> 10],
     [text |-> <<"H">>, left |-> 89, top |-> 90, width |-> 5, height |-> 20],
     [text |-> <<"I">>, left |-> 100, top |-> 155, width |-> 20, height |-> 20],
     [text |-> <<"W">>, left |-> 10, top |-> 90, height |-> 20],
     [text |-> <<"T">>, left |-> 45, width |-> 20, height |-> 20],
     [text |-> <<"L">>, top |-> 90, width |-> 20, height |-> 20]}

FragmentLists == UNION {[1..n -> FragmentPool] : n \in 0..MaxFragments}

DetectInit ==
    /\ ocr_results \in FragmentLists
    /\ dpc = "group"
    /\ item_idx = 1
    /\ rows = <<>>
    /\ sorted_rows = <<>>
    /\ cell_first = <<>>
    /\ table_data = <<>>
    /\ run = "idle"
    /\ ppc = "start"
    /\ row_idx = 0
    /\ headers = <<>>
    /\ unit = <<>>
    /\ all_parsed_values = <<>>
    /\ seen_elements = {}
    /\ is_table = FALSE
    /\ text = <<>>
    /\ call = "idle"
    /\ is_trace_arg = FALSE
    /\ num_result = None
    /\ sym_result = NoSymbol
    /\ rec_result = <<>>
    /\ again_result = None
    /\ images = <<>>
    /\ page_num = 0
    /\ mpc = "idle"
    /\ composition_data = <<>>
    /\ all_composition_data = <<>>
    /\ log = <<>>

\* if not ocr_results: return []
DetectNothing ==
    /\ dpc = "group"
    /\ ocr_results = <<>>
    /\ dpc' = "done"
    /\ UNCHANGED <<ocr_results, item_idx, rows, sorted_rows, cell_first,
                   parseVars, tokVars, mainVars>>

\* one iteration of the grouping loop
GroupItem ==
    /\ dpc = "group"
    /\ item_idx <= Len(ocr_results)
    /\ IF GroupingRaises(ocr_results[item_idx])
       THEN /\ dpc' = "error"
            /\ UNCHANGED <<rows, item_idx>>
       ELSE /\ rows' = AssignRow(rows, ocr_results[item_idx])
            /\ item_idx' = item_idx + 1
            /\ UNCHANGED dpc
    /\ UNCHANGED <<ocr_results, sorted_rows, cell_first,
                   parseVars, tokVars, mainVars>>

\* sorted_rows = sorted(rows.items())
SortRows ==
    /\ dpc = "group"
    /\ ocr_results # <<>>
    /\ item_idx > Len(ocr_results)
    /\ sorted_rows' = SortedRows(rows)
    /\ dpc' = "build"
    /\ UNCHANGED <<ocr_results, item_idx, rows, cell_first,
                   parseVars, tokVars, mainVars>>

\* one iteration of the loop over sorted_rows
BuildRow ==
    /\ dpc = "build"
    /\ Len(table_data) < Len(sorted_rows)
    /\ IF RowRaises(sorted_rows[Len(table_data) + 1].items)
       THEN /\ dpc' = "error"
            /\ UNCHANGED <<table_data, cell_first>>
       ELSE /\ \E r \in {RowCells(sorted_rows[Len(table_data) + 1].items)} :
                  /\ table_data' = Append(table_data, r.row_text)
                  /\ cell_first' = Append(cell_first, r.first)
            /\ UNCHANGED dpc
    /\ UNCHANGED <<ocr_results, item_idx, rows, sorted_rows,
                   parseRest, is_table, tokVars, mainVars>>

\* return table_data
DetectReturn ==
    /\ dpc = "build"
    /\ Len(table_data) = Len(sorted_rows)
    /\ dpc' = "done"
    /\ UNCHANGED <<ocr_results, item_idx, rows, sorted_rows, cell_first,
                   parseVars, tokVars, mainVars>>

DetectNext ==
    \/ DetectNothing
    \/ GroupItem
    \/ SortRows
    \/ BuildRow
    \/ DetectReturn

SpecDetect == DetectInit /\ [][DetectNext]_vars

\* the positions in ocr_results of the fragments of row k of sorted_rows
PositionsOfRow(k) ==
    {i \in 1..Len(ocr_results) : \E n \in 1..Len(sorted_rows[k].items) :
        sorted_rows[k].items[n] = ocr_results[i]}

\* C6: in the grid returned by detect_table_regions the rows are in strictly
\* ascending order of their anchor, the y-center of the first fragment
\* assigned to the row, and within each row the cells are in ascending
\* order of the left coordinate of the first fragment merged into the cell.
C6_GridOrder ==
    dpc = "done" =>
        /\ Len(table_data) = Len(sorted_rows)
        /\ Len(cell_first) = Len(table_data)
        /\ \A k \in 1..Len(table_data) :
              /\ sorted_rows[k].row_y = YCenter(sorted_rows[k].items[1])
              /\ sorted_rows[k].row_y = YCenter(ocr_results[MinOf(PositionsOfRow(k))])
              /\ \A j \in 1..Len(table_data) :
                    k < j => sorted_rows[k].row_y < sorted_rows[j].row_y
              /\ Len(cell_first[k]) = Len(table_data[k])
              /\ \A c \in 1..Len(table_data[k]) :
                    /\ \E n \in 1..Len(sorted_rows[k].items) :
                          sorted_rows[k].items[n] = cell_first[k][c]
                    /\ StartsWith(table_data[k][c], cell_first[k][c].text)
                    /\ \A d \in 1..Len(table_data[k]) :
                          c < d => cell_first[k][c].left < cell_first[k][d].left

\* a returned grid of two rows whose fragments arrived bottom row first and,
\* in the two-cell row, right cell first
C6_Witness ==
    /\ dpc = "done"
    /\ Len(ocr_results) = 3
    /\ Len(table_data) = 2
    /\ Len(table_data[2]) = 2
    /\ ocr_results[1].left > ocr_results[2].left
    /\ YCenter(ocr_results[3]) < YCenter(ocr_results[1])
    /\ table_data[1] = <<ocr_results[3].text>>

(***************************************************************************)
(* Specification of the page loop                                          *)
(***************************************************************************)
MaxPages == 2

\* the fragments OCR finds on a page that shows grid g: cell c of row r at
\* left 200 c and top 100 r, 50 wide and 20 high, in reading order
FragmentAt(g, r, c) ==
    [text |-> g[r][c], left |-> 200 * c, top |-> 100 * r, width |-> 50, height |-> 20]

RECURSIVE PageFrom(_, _)
PageFrom(g, r) ==
    IF r > Len(g) THEN <<>>
    ELSE [c \in 1..Len(g[r]) |-> FragmentAt(g, r, c)] \o PageFrom(g, r + 1)

PageOf(g) == PageFrom(g, 1)

\* a page without text, a single line, a table without keywords, tables
\* with two and with three element rows, a keyword table without elements,
\* a table whose cells hold element and value together
PageGrids ==
    {<<>>,
     <<<<<<"E", "l", "e", "m", "e", "n", "t">>, <<"C", "h", "e", "m", "i", "c", "a", "l">>>>>>,
     <<<<<<"A", "l">>, <<"6", "5", "3">>>>,
       <<<<"F", "e">>, <<"1", "9">>>>>>,
     <<<<<<"E", "l", "e", "m", "e", "n", "t">>, <<"C", "h", "e", "m", "i", "c", "a", "l">>, <<"C", "o", "m", "p", "o", "s", "i", "t", "i", "o", "n">>>>,
       <<<<"A", "l">>, <<"6", "5", "3">>>>,
       <<<<"F", "e">>, <<"1", "9">>>>>>,
     <<<<<<"E", "l", "e", "m", "e", "n", "t">>, <<"C", "h", "e", "m", "i", "c", "a", "l">>, <<"C", "o", "m", "p", "o", "s", "i", "t", "i", "o", "n">>>>,
       <<<<"A", "l">>, <<"6", "5", "3">>>>,
       <<<<"F", "e">>, <<"1", "9">>>>,
       <<<<"C">>, <<"8", "0", ".", "5">>>>>>,
     <<<<<<"E", "l", "e", "m", "e", "n", "t">>, <<"C", "h", "e", "m", "i", "c", "a", "l">>>>,
       <<<<"x">>, <<"y">>>>>>,
     <<<<<<"E", "l", "e", "m", "e", "n", "t">>, <<"C", "h", "e", "m", "i", "c", "a", "l">>, <<"C", "o", "m", "p", "o", "s", "i", "t", "i", "o", "n">>>>,
       <<<<"A", "l", " ", "6", ".", "5">>>>,
       <<<<"V", " ", "4", ".", "0", "8", "-", "5">>>>>>}

PagePool == {PageOf(g) : g \in PageGrids}

PageLists == UNION {[1..n -> PagePool] : n \in 0..MaxPages}

MainInit ==
    /\ images \in PageLists
    /\ page_num = 0
    /\ mpc = "next"
    /\ composition_data = <<>>
    /\ all_composition_data = <<>>
    /\ log = <<>>
    /\ ocr_results = <<>>
    /\ table_data = <<>>
    /\ is_table = FALSE
    /\ dpc = "idle"
    /\ item_idx = 0
    /\ rows = <<>>
    /\ sorted_rows = <<>>
    /\ cell_first = <<>>
    /\ run = "idle"
    /\ ppc = "start"
    /\ row_idx = 0
    /\ headers = <<>>
    /\ unit = <<>>
    /\ all_parsed_values = <<>>
    /\ seen_elements = {}
    /\ text = <<>>
    /\ call = "idle"
    /\ is_trace_arg = FALSE
    /\ num_result = None
    /\ sym_result = NoSymbol
    /\ rec_result = <<>>
    /\ again_result = None

\* the loop takes the next page and OCR returns its fragments
NextPage ==
    /\ mpc = "next"
    /\ page_num < Len(images)
    /\ page_num' = page_num + 1
    /\ ocr_results' = images[page_num + 1]
    /\ log' = <<>>
    /\ mpc' = "ocr"
    /\ UNCHANGED <<images, composition_data, all_composition_data, table_data,
                   is_table, parseRest, detRest, tokVars>>

\* if not ocr_results: continue
NoText ==
    /\ mpc = "ocr"
    /\ ocr_results = <<>>
    /\ mpc' = "next"
    /\ UNCHANGED <<images, page_num, composition_data, all_composition_data, log,
                   ocr_results, table_data, is_table, parseRest, detRest, tokVars>>

\* table_data = detect_table_regions(ocr_results)
DetectTables ==
    /\ mpc = "ocr"
    /\ ocr_results # <<>>
    /\ table_data' = detect_table_regions(ocr_results)
    /\ log' = Append(log, "detect")
    /\ mpc' = "detected"
    /\ UNCHANGED <<images, page_num, composition_data, all_composition_data,
                   ocr_results, is_table, parseRest, detRest, tokVars>>

\* if not table_data or len(table_data) < 2: continue
NoTable ==
    /\ mpc = "detected"
    /\ SkipsTable(table_data)
    /\ mpc' = "next"
    /\ UNCHANGED <<images, page_num, composition_data, all_composition_data, log,
                   ocr_results, table_data, is_table, parseRest, detRest, tokVars>>

\* if is_chemical_composition_table(table_data)
ClassifyPage ==
    /\ mpc = "detected"
    /\ ~SkipsTable(table_data)
    /\ is_table' = is_chemical_composition_table(table_data)
    /\ log' = Append(log, "classify")
    /\ mpc' = "classified"
    /\ UNCHANGED <<images, page_num, composition_data, all_composition_data,
                   ocr_results, table_data, parseRest, detRest, tokVars>>

\* the else branch: the table is not a composition table
NotComposition ==
    /\ mpc = "classified"
    /\ ~is_table
    /\ mpc' = "next"
    /\ UNCHANGED <<images, page_num, composition_data, all_composition_data, log,
                   ocr_results, table_data, is_table, parseRest, detRest, tokVars>>

\* composition_data = parse_table_to_composition_data(table_data)
ParsePrimary ==
    /\ mpc = "classified"
    /\ is_table
    /\ composition_data' = parse_table_to_composition_data(table_data)
    /\ log' = Append(log, "primary")
    /\ mpc' = "parsed"
    /\ UNCHANGED <<images, page_num, all_composition_data,
                   ocr_results, table_data, is_table, parseRest, detRest, tokVars>>

\* composition_data = parse_table_simple_heuristic(table_data)
ParseFallback ==
    /\ mpc = "parsed"
    /\ NeedsFallback(composition_data)
    /\ composition_data' = FallbackResult(composition_data, table_data)
    /\ log' = Append(log, "fallback")
    /\ mpc' = "collect"
    /\ UNCHANGED <<images, page_num, all_composition_data,
                   ocr_results, table_data, is_table, parseRest, detRest, tokVars>>

\* the primary result is kept
KeepPrimary ==
    /\ mpc = "parsed"
    /\ ~NeedsFallback(composition_data)
    /\ mpc' = "collect"
    /\ UNCHANGED <<images, page_num, composition_data, all_composition_data, log,
                   ocr_results, table_data, is_table, parseRest, detRest, tokVars>>

\* if composition_data: all_composition_data.extend(composition_data)
Collect ==
    /\ mpc = "collect"
    /\ all_composition_data' = Collected(all_composition_data, composition_data)
    /\ mpc' = "next"
    /\ UNCHANGED <<images, page_num, composition_data, log,
                   ocr_results, table_data, is_table, parseRest, detRest, tokVars>>

\* after the last page: export to CSV, or exit with status 1 without data
Export ==
    /\ mpc = "next"
    /\ page_num = Len(images)
    /\ mpc' = IF all_composition_data # <<>> THEN "exported" ELSE "exit"
    /\ UNCHANGED <<images, page_num, composition_data, all_composition_data, log,
                   ocr_results, table_data, is_table, parseRest, detRest, tokVars>>

MainNext ==
    \/ NextPage
    \/ NoText
    \/ DetectTables
    \/ NoTable
    \/ ClassifyPage
    \/ NotComposition
    \/ ParsePrimary
    \/ ParseFallback
    \/ KeepPrimary
    \/ Collect
    \/ Export

SpecMain == MainInit /\ [][MainNext]_vars

LastLogged == IF log = <<>> THEN "" ELSE log[Len(log)]

\* the grid of the page being processed
PageGrid == detect_table_regions(images[page_num])

\* C7: on every page the primary extractor runs only directly after the
\* classifier returned true for the grid of that page; the fallback
\* extractor runs only on the result of the primary extractor and only if
\* that has fewer than 3 records, and when the primary extractor returned
\* fewer than 3 records the next step is the fallback extractor; records
\* are added to the output only on a page on which the primary extractor
\* ran, so a page classified negative or with fewer than 2 rows adds none.
C7_PagePipeline ==
    /\ [][log' = Append(log, "primary")
          => /\ LastLogged = "classify"
             /\ table_data = PageGrid
             /\ Len(table_data) >= 2
             /\ is_table
             /\ is_chemical_composition_table(PageGrid)]_vars
    /\ [][log' = Append(log, "fallback")
          => /\ LastLogged = "primary"
             /\ composition_data = parse_table_to_composition_data(PageGrid)
             /\ Len(composition_data) < 3]_vars
    /\ [][(LastLogged = "primary" /\ Len(composition_data) < 3)
          => log' = Append(log, "fallback")]_vars
    /\ [][all_composition_data' # all_composition_data
          => /\ \E i \in 1..Len(log) : log[i] = "primary"
             /\ Len(PageGrid) >= 2
             /\ is_chemical_composition_table(PageGrid)
             /\ all_composition_data' = all_composition_data \o composition_data]_vars
    /\ []((mpc = "next" /\ page_num >= 1
             /\ (Len(PageGrid) < 2 \/ ~is_chemical_composition_table(PageGrid)))
          => \A i \in 1..Len(log) : log[i] \notin {"primary", "fallback"})

\* the second page went through the classifier, the primary and the
\* fallback extractor and added records; the first page added none
C7_Witness ==
    /\ page_num = 2
    /\ mpc = "next"
    /\ log = <<"detect", "classify", "primary", "fallback">>
    /\ ~is_chemical_composition_table(detect_table_regions(images[1]))
    /\ all_composition_data # <<>>
    /\ all_composition_data = composition_data

RequiredFields == {"text", "left", "top", "width", "height"}

\* C11 as stated: detect_table_regions never returns a grid for an input
\* with a fragment that lacks one of the fields text, left, top, width,
\* height; every such input ends in an error.
C11_MalformedFails ==
    dpc = "done" =>
        \A i \in 1..Len(ocr_results) : RequiredFields \subseteq DOMAIN ocr_results[i]

\* the fixed priority order
PriorityOrder == <<<<"A", "l">>, <<"V">>, <<"F", "e">>, <<"C">>, <<"N">>, <<"O">>, <<"Y">>, <<"H">>>>

PriorityIndex(symbol) ==
    CHOOSE i \in 1..Len(PriorityOrder) : PriorityOrder[i] = symbol

\* C12: the records returned by either extractor are in the priority order
\* Al, V, Fe, C, N, O, Y, H: of two consecutive records the first has a
\* priority index not greater than the second's.
C12_SortedByPriority ==
    (Extracting /\ ppc = "done") =>
        \A i \in 1..(Len(all_parsed_values) - 1) :
            /\ \E k \in 1..Len(PriorityOrder) :
                  PriorityOrder[k] = all_parsed_values[i].element_symbol
            /\ \E k \in 1..Len(PriorityOrder) :
                  PriorityOrder[k] = all_parsed_values[i + 1].element_symbol
            /\ PriorityIndex(all_parsed_values[i].element_symbol)
                  <= PriorityIndex(all_parsed_values[i + 1].element_symbol)

\* the fallback extractor met V before Al and returned Al before V
C12_Witness ==
    /\ run = "heuristic"
    /\ ppc = "done"
    /\ Len(table_data) = 2
    /\ table_data[1] = <<<<"V", " ", "4", ".", "0", "8", "-", "5">>>>
    /\ table_data[2] = <<<<"A", "l", " ", "6", ".", "5">>>>
    /\ Len(all_parsed_values) = 2
    /\ all_parsed_values[1].element_symbol = <<"A", "l">>
    /\ all_parsed_values[2].element_symbol = <<"V">>

\* C13 as stated: for every result v of normalize_number with
\* 0 <= v <= 100, normalize_number of the string form of v is a number
\* within 1e-6 of v.
C13_RoundTrip ==
    (/\ call = "renormalize"
     /\ num_result.m >= 0
     /\ num_result.m <= 100 * Pow10(num_result.e))
    => /\ IsNum(again_result)
       /\ LET d == again_result.m * Pow10(num_result.e)
                    - num_result.m * Pow10(again_result.e)
          IN  (IF d < 0 THEN -d ELSE d) * Pow10(6)
                 <= Pow10(num_result.e + again_result.e)

\* the records of a page as a function of its fragments alone
PageRecords(page) ==
    IF page = <<>> THEN <<>>
    ELSE LET grid == detect_table_regions(page)
         IN  IF Len(grid) < 2 \/ ~is_chemical_composition_table(grid) THEN <<>>
             ELSE IF Len(parse_table_to_composition_data(grid)) < 3
             THEN parse_table_simple_heuristic(grid)
             ELSE parse_table_to_composition_data(grid)

\* the records of pages 1..n, page after page
RecordsUpTo(n) ==
    LET R[k \in 0..n] == IF k = 0 THEN <<>> ELSE R[k - 1] \o PageRecords(images[k])
    IN  R[n]

GroupStep == dpc = "group" /\ item_idx' = item_idx + 1

\* the fragment joins row k, all rows keeping their place
JoinsRow(k) ==
    /\ Len(rows') = Len(rows)
    /\ rows'[k].items = Append(rows[k].items, ocr_results[item_idx])
    /\ \A j \in 1..Len(rows) : j # k => rows'[j] = rows[j]

\* the fragment starts a new row behind the existing ones
StartsRow ==
    /\ Len(rows') = Len(rows) + 1
    /\ rows'[Len(rows')].items = <<ocr_results[item_idx]>>
    /\ \A j \in 1..Len(rows) : rows'[j] = rows[j]

\* twice the vertical center top + height/2
TwiceCenter(item) == 2 * item.top + item.height

\* the rows whose anchor, the center of their first fragment, is less than
\* 25 px from the center of the fragment
RowsWithinExact(item) ==
    {k \in 1..Len(rows) :
        LET d == TwiceCenter(item) - TwiceCenter(rows[k].items[1])
        IN  (IF d < 0 THEN -d ELSE d) < 2 * 25}

\* C15 as stated: every fragment, in input order, joins the earliest-created
\* row whose anchor a has |c - a| within the 25 px tolerance, c being the
\* center top + height/2, and starts a new row otherwise; also for
\* fragments of odd height.
C15_RowAssignmentExact ==
    [][GroupStep =>
          IF RowsWithinExact(ocr_results[item_idx]) = {}
          THEN StartsRow
          ELSE JoinsRow(MinOf(RowsWithinExact(ocr_results[item_idx])))]_vars

\* the center as computed: top + floor(height / 2)
FloorCenter(item) == item.top + ((item.height - (item.height % 2)) \div 2)

RowsWithinFloor(item) ==
    {k \in 1..Len(rows) :
        LET d == FloorCenter(item) - FloorCenter(rows[k].items[1])
        IN  (IF d < 0 THEN -d ELSE d) < 25}

\* C15 amended: every fragment, in input order, joins the earliest-created
\* row whose anchor a has |c - a| < 25, where c = top + floor(height / 2)
\* and a is that center of the row's first fragment; otherwise it starts a
\* new row anchored at c.
C15_RowAssignmentFloor ==
    [][GroupStep =>
          IF RowsWithinFloor(ocr_results[item_idx]) = {}
          THEN StartsRow /\ rows'[Len(rows')].row_y = FloorCenter(ocr_results[item_idx])
          ELSE JoinsRow(MinOf(RowsWithinFloor(ocr_results[item_idx])))]_vars

\* a row anchored by a fragment of odd height, and a fragment whose computed
\* center lies exactly 25 px below that anchor in a row of its own
C15_Witness ==
    /\ dpc = "group"
    /\ Len(rows) = 2
    /\ rows[1].items[1].height % 2 = 1
    /\ rows[2].row_y - rows[1].row_y = 25
    /\ item_idx = 3

\* fragments with y-centers 100, 120 and 140
F100 == CHOOSE f \in FragmentPool : Has(f, "text") /\ f.text = <<"A">>

F120 == CHOOSE f \in FragmentPool : Has(f, "text") /\ f.text = <<"C">>

F140 == CHOOSE f \in FragmentPool : Has(f, "text") /\ f.text = <<"D">>

\* the partition of the fragments into the rows of the returned grid
RowPartition ==
    {{sorted_rows[k].items[n] : n \in 1..Len(sorted_rows[k].items)} :
        k \in 1..Len(sorted_rows)}

\* C16: row clustering depends on the order of the fragments.  The same
\* three fragments, of y-centers 100, 120 and 140, give the rows
\* {100, 120} and {140} when presented as 100, 120, 140, and the single row
\* {100, 120, 140} when presented as 120, 100, 140.
C16_OrderDependent ==
    dpc = "done" =>
        /\ ocr_results = <<F100, F120, F140>> =>
              /\ RowPartition = {{F100, F120}, {F140}}
              /\ Len(table_data) = 2
        /\ ocr_results = <<F120, F100, F140>> =>
              /\ RowPartition = {{F100, F120, F140}}
              /\ Len(table_data) = 1

\* the grid of the second ordering was returned: one row for fragments that
\* the first ordering puts in two
C16_Witness ==
    /\ dpc = "done"
    /\ ocr_results = <<F120, F100, F140>>
    /\ YCenter(F100) = 100 /\ YCenter(F120) = 120 /\ YCenter(F140) = 140
    /\ Len(table_data) = 1
    /\ Len(detect_table_regions(<<F100, F120, F140>>)) = 2


(***************************************************************************)
(* C17: the out-of-range correction of dotted literals                    *)
(***************************************************************************)
\* an optional sign, digits and one dot, accepted by float() as it stands
PlainDotted(t) ==
    /\ Contains(t, <<".">>)
    /\ \A i \in 1..Len(t) : t[i] \in Digits \cup {".", "-"}
    /\ FloatParse(t).ok

\* the text is a plain dotted literal behind the trace marker
TraceDotted(t) == t # <<>> /\ Head(t) = "<" /\ PlainDotted(Tail(t))

\* C17 as stated: a non-trace dotted literal x yields x/1000 when |x| > 1000,
\* x/10 when 100 < |x| <= 1000 and x otherwise, for negative x as for
\* positive x; behind the trace marker x is returned unchanged.
C17_MagnitudeCorrection ==
    call = "normalize_number" =>
        /\ PlainDotted(text) =>
              \E x \in {FloatParse(text).v} :
                  num_result =
                      IF DecLess(Thousand, DecAbs(x)) THEN DivPow10(x, 3)
                      ELSE IF DecLess(Hundred, DecAbs(x)) THEN DivPow10(x, 1)
                      ELSE x
        /\ TraceDotted(text) => num_result = FloatParse(Tail(text)).v

SignedExamples ==
    {<<<<"1", "2", "3", "4", ".", "5">>, Num(12345, 4)>>,
     <<<<"1", "5", "0", ".", "5">>, Num(1505, 2)>>,
     <<<<"6", "5", ".", "0">>, Num(65, 0)>>,
     <<<<"-", "0", ".", "0", "5">>, Num(-5, 2)>>,
     <<<<"-", "5", "0", "0", ".", "5">>, Num(-5005, 1)>>,
     <<<<"<", "1", "5", "0", ".", "5">>, Num(1505, 1)>>}

\* C17 (amended): the correction compares the signed number: a non-trace
\* dotted literal x yields x/1000 when x > 1000, x/10 when 100 < x <= 1000
\* and x otherwise, so every negative x is returned unchanged ("-500.5"
\* yields -500.5); behind the trace marker x is returned unchanged.
C17_SignedCorrection ==
    call = "normalize_number" =>
        /\ PlainDotted(text) =>
              \E x \in {FloatParse(text).v} :
                  /\ num_result =
                         IF DecLess(Thousand, x) THEN DivPow10(x, 3)
                         ELSE IF DecLess(Hundred, x) THEN DivPow10(x, 1)
                         ELSE x
                  /\ x.m < 0 => num_result = x
        /\ TraceDotted(text) => num_result = FloatParse(Tail(text)).v
        /\ \A ex \in SignedExamples : text = ex[1] => num_result = ex[2]

C17_Witness ==
    /\ call = "normalize_number"
    /\ text = <<"-", "5", "0", "0", ".", "5">>
    /\ num_result = Num(-5005, 1)


(***************************************************************************)
(* C18: the branch of the decimal-placement inference                     *)
(***************************************************************************)
\* the value the digit-count rule gives to the integer n written with
\* digits digits
ByDigitCount(n, digits) ==
    IF digits = 1 THEN Num(n, 0)
    ELSE IF digits = 2
         THEN IF n % 10 = 0 THEN Num(n, 1)
              ELSE IF n < 30 THEN Num(n, 2)
              ELSE Num(n, 1)
    ELSE IF digits = 3 THEN (IF n < 10 THEN Num(n, 3) ELSE Num(n, 2))
    ELSE IF digits = 4 THEN (IF n < 1000 THEN Num(n, 4) ELSE Num(n, 3))
    ELSE Num(n, digits - 1)

\* C18: the non-trace inference selects its branch by the number of digits of
\* the digit string, leading zeros counted: 1 digit gives n, 2 digits n/10
\* when n is divisible by 10, else n/100 when n < 30, else n/10, 3 digits
\* n/1000 when n < 10, else n/100, 4 digits n/10000 when n < 1000, else
\* n/1000, 5 or more digits n/10^(digits-1); "005" yields 0.005 and "0050"
\* yields 0.0050.
C18_BranchByDigitCount ==
    (call = "infer_decimal_placement" /\ ~is_trace_arg /\ AllDigits(text)) =>
        /\ num_result = ByDigitCount(IntParse(text).v, Len(text))
        /\ text = <<"0", "0", "5">> => num_result = Num(5, 3)
        /\ text = <<"0", "0", "5", "0">> => num_result = Num(5, 3)


(***************************************************************************)
(* C19: tokens whose correction lies outside the priority list            *)
(***************************************************************************)
\* the keys the claim names: Kin, kin, cr, ni, mo, cu, nb, si, ti
DiscardedKeys ==
    {<<"K", "i", "n">>, <<"k", "i", "n">>, <<"c", "r">>, <<"n", "i">>,
     <<"m", "o">>, <<"c", "u">>, <<"n", "b">>, <<"s", "i">>, <<"t", "i">>}

\* C19: a token whose entry of the OCR-confusion table maps to a symbol
\* outside the priority list is discarded: extract_element_symbol returns no
\* match for Kin, kin, cr, ni, mo, cu, nb, si and ti, and the prefix and
\* substring stages do not resolve them to a priority symbol.
C19_OutOfSetDiscarded ==
    (call = "extract_element_symbol" /\ text \in DiscardedKeys) =>
        /\ InCorrections(text)
        /\ Corrected(text) \notin PrioritySet
        /\ sym_result = NoSymbol


(***************************************************************************)
(* C20: the order of the strategies for a data row                        *)
(***************************************************************************)
\* the cells of r that name an element not yet recorded
UnseenCells(r, seen) ==
    {k \in 1..Len(r) :
        /\ extract_element_symbol(r[k]) \in EightSymbols
        /\ extract_element_symbol(r[k]) \notin seen}

\* C20: the strategies are tried in the order A, B, C and a later one is
\* attempted whenever the earlier ones yielded no unseen element.  For a row
\* of at least 2 cells whose cell 0 names an element already recorded and in
\* which no cell names an unseen element, the header-driven strategy reads
\* the cell at the column of the first header cell that names an unseen
\* element; when that cell holds a plausible number the row stores the record
\* of the header's element with that number.
C20_StrategyOrder ==
    [][(/\ RowStep
        /\ Len(table_data[row_idx]) >= 2
        /\ extract_element_symbol(table_data[row_idx][1]) \in seen_elements
        /\ UnseenCells(table_data[row_idx], seen_elements) = {}
        /\ Len(headers) > 1
        /\ UnseenCells(headers, seen_elements) # {}
        /\ MinOf(UnseenCells(headers, seen_elements)) \in PlausibleColumns(table_data[row_idx]))
       => \E k \in {MinOf(UnseenCells(headers, seen_elements))} :
            all_parsed_values' =
                Append(all_parsed_values,
                       [element_symbol |-> extract_element_symbol(headers[k]),
                        value |-> normalize_number(table_data[row_idx][k]),
                        unit |-> unit])]_vars


(***************************************************************************)
(* C21: the value Strategy B reads for an element                         *)
(***************************************************************************)
\* the value of the claim for the element found in cell i of r: the number
\* of the same cell, else of the next cell, else of the previous cell
AdjacentValue(r, i) ==
    IF IsNum(normalize_number(SearchNumber(r[i])))
    THEN normalize_number(SearchNumber(r[i]))
    ELSE IF i + 1 <= Len(r) /\ IsNum(normalize_number(r[i + 1]))
    THEN normalize_number(r[i + 1])
    ELSE IF i > 1 THEN normalize_number(r[i - 1])
    ELSE None

\* C21: Strategy B.  When cell 0 of a row names no unseen element and exactly
\* one cell of the row names an unseen element, the value of that element is
\* the number embedded in the same cell if there is one; if the cell holds no
\* parseable number (also when its only run of digits and punctuation is '.'
\* or ','), it is the number of the adjacent next cell, and if that is not a
\* number, of the adjacent previous cell.  A plausible value found this way
\* is stored with the element.
C21_StrategyB ==
    [][(/\ RowStep
        /\ 1 \notin UnseenCells(table_data[row_idx], seen_elements)
        /\ Cardinality(UnseenCells(table_data[row_idx], seen_elements)) = 1)
       => \E i \in UnseenCells(table_data[row_idx], seen_elements) :
          \E v \in {AdjacentValue(table_data[row_idx], i)} :
            (IsNum(v) /\ PlausiblePercent(v)) =>
                all_parsed_values' =
                    Append(all_parsed_values,
                           [element_symbol |-> extract_element_symbol(table_data[row_idx][i]),
                            value |-> v,
                            unit |-> unit])]_vars


(***************************************************************************)
(* C22: the first occurrence of an element wins                           *)
(***************************************************************************)
SymbolsOf(recs) == {recs[i].element_symbol : i \in 1..Len(recs)}

\* C22: a step of the row loop leaves the record list as it is or appends one
\* record, and the appended record is of an element that had no record; the
\* records stored so far keep their place, symbol, value and unit.
C22_FirstOccurrenceWins ==
    [][RowStep =>
        /\ Len(all_parsed_values') \in {Len(all_parsed_values),
                                        Len(all_parsed_values) + 1}
        /\ SubSeq(all_parsed_values', 1, Len(all_parsed_values)) = all_parsed_values
        /\ Len(all_parsed_values') = Len(all_parsed_values) + 1 =>
              all_parsed_values'[Len(all_parsed_values')].element_symbol
                  \notin SymbolsOf(all_parsed_values)]_vars

\* the row loop stored Al = 6.53 from the first data row and then passed a
\* second row that names Al with other numbers
C22_Witness ==
    /\ run = "primary"
    /\ ppc = "rows"
    /\ row_idx = 4
    /\ table_data[2] = <<<<"A", "l">>, <<"6", "5", "3">>>>
    /\ table_data[3] = <<<<"A", "l">>, <<"-", "5">>, <<"-", "0", ".", "0", "5">>>>
    /\ all_parsed_values = <<Record(<<"A", "l">>, Num(653, 2), DefaultUnit)>>


(***************************************************************************)
(* C23: the rows of detect_table_regions                                  *)
(***************************************************************************)
\* the texts of the sequence q of fragments, joined in order
RECURSIVE TextOf(_, _)
TextOf(q, i) ==
    IF i > Len(q) THEN <<>>
    ELSE q[i].text \o TextOf(q, i + 1)

\* the number of times fragment f occurs in the sequence q
Occurrences(q, f) == Cardinality({i \in 1..Len(q) : q[i] = f})

RECURSIVE OccurrencesInRows(_, _, _)
OccurrencesInRows(rs, k, f) ==
    IF k > Len(rs) THEN 0
    ELSE Occurrences(rs[k].items, f) + OccurrencesInRows(rs, k + 1, f)

AnchorsApart ==
    \A j, k \in 1..Len(rows) :
        j # k => Distance(rows[j].row_y, rows[k].row_y) >= 25

AnchorIsFirstCenter ==
    \A k \in 1..Len(rows) : rows[k].row_y = FloorCenter(rows[k].items[1])

ItemsNearAnchor ==
    \A k \in 1..Len(rows) : \A n \in 1..Len(rows[k].items) :
        Distance(FloorCenter(rows[k].items[n]), rows[k].row_y) < 25

\* the rows hold the fragments of the processed prefix, each once
PrefixGrouped ==
    dpc = "group" =>
        \A f \in FragmentPool :
            OccurrencesInRows(rows, 1, f)
                = Occurrences(SubSeq(ocr_results, 1, item_idx - 1), f)

\* the returned grid has one row for every row of the dictionary, none of
\* them empty, and the cells of a row are the texts of its fragments cut
\* into cells
GridHoldsEveryText ==
    dpc = "done" =>
        /\ Len(table_data) = Len(sorted_rows)
        /\ \A f \in FragmentPool :
              OccurrencesInRows(sorted_rows, 1, f) = Occurrences(ocr_results, f)
        /\ \A k \in 1..Len(table_data) :
              /\ table_data[k] # <<>>
              /\ Len(table_data[k]) <= Len(sorted_rows[k].items)
              /\ \A c \in 1..Len(table_data[k]) : table_data[k][c] # <<>>
              /\ TextOf([c \in 1..Len(table_data[k]) |-> [text |-> table_data[k][c]]], 1)
                    = TextOf(SortedItems(sorted_rows[k].items), 1)

\* C23: after any prefix of the fragments any two row anchors differ by at
\* least 25 px, the anchor of a row is the floored y-center of the first
\* fragment assigned to it and never changes, every fragment of a row has its
\* y-center less than 25 px from the anchor; in the returned grid the text of
\* every input fragment is in exactly one cell and no row is empty.
C23_RowInvariants ==
    /\ [](AnchorsApart /\ AnchorIsFirstCenter /\ ItemsNearAnchor
            /\ PrefixGrouped /\ GridHoldsEveryText)
    /\ [][\A k \in 1..Len(rows) :
            /\ Len(rows') >= Len(rows)
            /\ rows'[k].row_y = rows[k].row_y
            /\ rows'[k].items[1] = rows[k].items[1]]_vars

\* a returned grid of two rows whose anchors are exactly 25 px apart, one of
\* them with two fragments merged into one cell
C23_Witness ==
    /\ dpc = "done"
    /\ Len(sorted_rows) = 2
    /\ sorted_rows[2].row_y - sorted_rows[1].row_y = 25
    /\ \E k \in 1..2 : Len(table_data[k]) < Len(sorted_rows[k].items)


(***************************************************************************)
(* C24: the fallback replaces the primary result                          *)
(***************************************************************************)
\* a grid whose element symbols and values sit in separate cells
SeparateCells ==
    <<<<<<"E", "l", "e", "m", "e", "n", "t">>, <<"C", "h", "e", "m", "i", "c", "a", "l">>, <<"C", "o", "m", "p", "o", "s", "i", "t", "i", "o", "n">>>>,
      <<<<"A", "l">>, <<"6", "5", "3">>>>,
      <<<<"F", "e">>, <<"1", "9">>>>>>

\* C24: when the fallback extractor is invoked for a page, the primary
\* extractor having returned 0, 1 or 2 records, the records the page adds to
\* the output are exactly the result of the fallback extractor on the page's
\* grid and none of the primary extractor's; the page can add fewer records
\* than the primary extractor found, and none for the grid SeparateCells, on
\* which the primary extractor finds 2.
C24_FallbackReplaces ==
    /\ [][log' = Append(log, "fallback")
          => /\ Len(parse_table_to_composition_data(PageGrid)) < 3
             /\ composition_data = parse_table_to_composition_data(PageGrid)
             /\ composition_data' = parse_table_simple_heuristic(PageGrid)]_vars
    /\ [][(mpc = "collect" /\ LastLogged = "fallback")
          => all_composition_data' =
                all_composition_data \o parse_table_simple_heuristic(PageGrid)]_vars
    /\ []((page_num = 1 /\ mpc = "next" /\ PageGrid = SeparateCells)
          => /\ LastLogged = "fallback"
             /\ Len(parse_table_to_composition_data(SeparateCells)) = 2
             /\ all_composition_data = <<>>)

\* the first page went through the fallback extractor and added no record,
\* the primary extractor having found two
C24_Witness ==
    /\ page_num = 1
    /\ mpc = "next"
    /\ LastLogged = "fallback"
    /\ Len(parse_table_to_composition_data(PageGrid)) = 2
    /\ all_composition_data = <<>>


(***************************************************************************)
(* C25: the header row of the primary extractor                           *)
(***************************************************************************)
HeaderWords ==
    {<<"a", "l">>, <<"v">>, <<"f", "e">>, <<"c">>, <<"n">>, <<"o">>, <<"y">>,
     <<"h">>, <<"e", "l", "e", "m", "e", "n", "t">>}

\* the rows, among the first three, whose lowercased text contains 'element'
\* or a priority symbol in lowercase
HeaderCandidates(grid) ==
    {i \in 1..Len(grid) :
        /\ i <= 3
        /\ \E w \in HeaderWords : Contains(Lower(Join(grid[i])), w)}

\* the header row: the first candidate, the first row when there is none
HeaderIndex(grid) ==
    IF HeaderCandidates(grid) = {} THEN 1 ELSE MinOf(HeaderCandidates(grid))

\* C25: the primary extractor takes as header the first of the first three
\* rows whose lowercased text contains 'element' or a priority symbol in
\* lowercase, row 0 if there is none; the row loop starts below the header
\* and goes down row by row, so the rows at or above the header add no
\* record and the result is that of the grid cut at its header; a grid of
\* fewer than 2 rows yields no record, and the grid
\* [["Al","6.5"],["V","4.0"]] yields the record of V alone.
C25_HeaderRow ==
    /\ [][(run = "none" /\ run' = "primary") =>
            \E h \in {HeaderIndex(table_data)} :
                /\ all_parsed_values' = <<>>
                /\ IF Len(table_data) < 2 THEN ppc' = "done"
                   ELSE /\ headers' = table_data[h]
                        /\ row_idx' = h + 1]_vars
    /\ [][(run = "primary" /\ ppc = "rows") =>
            /\ headers' = headers
            /\ row_idx' \in {row_idx, row_idx + 1}
            /\ Len(all_parsed_values') <= Len(all_parsed_values) + (row_idx' - row_idx)]_vars
    /\ []((run = "primary" /\ ppc = "done") =>
            \E h \in {HeaderIndex(table_data)} :
                /\ Len(table_data) < 2 => all_parsed_values = <<>>
                /\ Len(table_data) >= 2 =>
                       Len(all_parsed_values) <= Len(table_data) - h
                /\ all_parsed_values =
                       parse_table_to_composition_data(SubSeq(table_data, h, Len(table_data)))
                /\ table_data = <<<<<<"A", "l">>, <<"6", ".", "5">>>>,
                                  <<<<"V">>, <<"4", ".", "0">>>>>> =>
                       all_parsed_values = <<Record(<<"V">>, Num(4, 0), DefaultUnit)>>)

\* the primary extractor finished a grid whose first row is a data row and
\* returned the record of the second row only
C25_Witness ==
    /\ run = "primary"
    /\ ppc = "done"
    /\ table_data = <<<<<<"A", "l">>, <<"6", ".", "5">>>>, <<<<"V">>, <<"4", ".", "0">>>>>>
    /\ HeaderIndex(table_data) = 1
    /\ all_parsed_values = <<Record(<<"V">>, Num(4, 0), DefaultUnit)>>

====
